---- MODULE Spec2Model ----
(***************************************************************************)
(* Model of the token-capture core of aiwatch (TokenCaptureService in      *)
(* src/unnamed/part_004): the Redis key space it writes (request, session, *)
(* user and model hashes, the hourly sorted sets, sessions:active and the  *)
(* users:active:<window> sets, with their TTLs) and its two public         *)
(* operations GetOrCreateSession and CaptureTokenMetrics.                  *)
(*                                                                         *)
(* Time is counted in ticks of 1/TicksPerSec second, so that the loss of   *)
(* the sub-second part in time.Format(time.RFC3339) and time.Unix() is     *)
(* part of the model.  Floating-point averages are kept as exact fractions *)
(* <<numerator, denominator>> in lowest terms.                             *)
(***************************************************************************)
EXTENDS Integers, Sequences, FiniteSets, TLC

VARIABLES
    now,            \* wall clock, in ticks
    requests,       \* request:<id>:tokens   hash per request id
    requestExp,     \* ... its expiry time (NoTTL: none)
    sessions,       \* session:<id>:tokens   hash per session id
    sessionExp,     \* ... its expiry time
    users,          \* user:<id>:tokens      hash per user id
    models,         \* model:<name>:usage    hash per model name
    hourly,         \* user:<id>:tokens:hourly:<hour>  sorted set per <<user, hour>>
    hourlyExp,      \* ... its expiry time
    sessionsActive, \* sessions:active       set of session ids
    active,         \* users:active:<w>      set of user ids per window
    activeExp,      \* ... its expiry time
    series,         \* metrics:<name>       time series per key
    counters,       \* tokens:<dir>:count, errors:<type>:count   string per key
    gauges,         \* the gauges the analytics service exports
    nextSid,        \* number of session ids GenerateSessionID has handed out
    procs,          \* per goroutine: the call it is executing and its locals
    ret,            \* what the most recent completed call returned
    nops,           \* number of calls started
    nticks,         \* number of clock advances
    hist            \* history kept for the properties (never read by the operations)

vars == <<now, requests, requestExp, sessions, sessionExp, users, models, hourly,
          hourlyExp, sessionsActive, active, activeExp, series, counters, gauges,
          nextSid, procs, ret, nops, nticks, hist>>

storeVars == <<requests, requestExp, sessions, sessionExp, users, models, hourly,
               hourlyExp, sessionsActive, active, activeExp, series, counters>>

(***************************************************************************)
(* Bounds of the model.                                                    *)
(***************************************************************************)
TicksPerSec == 2
MaxSessions == 2
MaxOps == 3
MaxTicks == 2
MaxTokens == 1
MaxFailures == 1
MaxProcOps == 2
MaxFailOps == 2
MaxSamples == 2
NumProcs == 2

(***************************************************************************)
(* Program constants, in seconds.                                          *)
(***************************************************************************)
SessionTimeoutSec == 1800
SessionTTLSec == 2592000
RequestTTLSec == 604800
HourlyTTLSec == 7776000
Window5mSec == 300
Window15mSec == 900
Window1hSec == 3600
Window24hSec == 86400
SecPerMinute == 60
MinPerHour == 60

Dur(sec) == sec * TicksPerSec

(***************************************************************************)
(* Inputs.                                                                 *)
(***************************************************************************)
Users == {"u1", "u2"}
Models == {"m1", "m2"}
ReqIds == {"r1", "r2"}
\* Session ids: 1..MaxSessions are produced by GenerateSessionID; 0 is an id a
\* caller made up itself (CaptureTokenMetrics takes the id from its argument).
SessionIds == 0..MaxSessions
Tokens == 0..MaxTokens
RespTimes == {10, 20}
Windows == {"5m", "15m", "1h", "24h"}
\* Clock advances: just under five minutes, just under thirty minutes.
TickSteps == {Dur(Window5mSec) - 1, Dur(SessionTimeoutSec) - 1}
MaxTime == (MaxTicks + 1) * Dur(SessionTimeoutSec)
\* Clock advances of a session's life: the 30 minutes of activity, the 30 days
\* of the key.
LifeSteps == {Dur(SessionTimeoutSec), Dur(SessionTTLSec)}
LifeTimes ==
    {a * Dur(SessionTimeoutSec) + b * Dur(SessionTTLSec) :
        a \in 0..MaxTicks, b \in 0..MaxTicks}
\* The clock hours a capture can fall in.
Hours ==
    (0..(MaxTime \div Dur(SecPerMinute * MinPerHour)))
        \cup {t \div Dur(SecPerMinute * MinPerHour) : t \in LifeTimes}

Nil == "nil"

\* The time series of initializeTimeSeries (the catalog) and a key outside it.
CatalogDay ==
    {"metrics:tokens:input_rate", "metrics:tokens:output_rate", "metrics:users:active_5m",
     "metrics:users:active_1h", "metrics:response_time:p95", "metrics:response_time:p99",
     "metrics:error_rate"}
CatalogWeek == {"metrics:memory:redis_used", "metrics:cpu:usage"}
CatalogKeys == CatalogDay \cup CatalogWeek
SeriesKeys == CatalogKeys \cup {"metrics:adhoc"}
\* The LABELS of the catalog.
CatalogLabels ==
    [k \in CatalogKeys |->
        CASE k = "metrics:tokens:input_rate" ->
                 [metric_type |-> "token_rate", direction |-> "input"]
          [] k = "metrics:tokens:output_rate" ->
                 [metric_type |-> "token_rate", direction |-> "output"]
          [] k = "metrics:users:active_5m" -> [metric_type |-> "user_activity", window |-> "5m"]
          [] k = "metrics:users:active_1h" -> [metric_type |-> "user_activity", window |-> "1h"]
          [] k = "metrics:response_time:p95" ->
                 [metric_type |-> "response_time", percentile |-> "95"]
          [] k = "metrics:response_time:p99" ->
                 [metric_type |-> "response_time", percentile |-> "99"]
          [] k = "metrics:error_rate" -> [metric_type |-> "error_rate"]
          [] k = "metrics:memory:redis_used" -> [metric_type |-> "memory", component |-> "redis"]
          [] k = "metrics:cpu:usage" -> [metric_type |-> "system", component |-> "cpu"]]
\* A key that holds no series; a series holds its samples (timestamp :> value)
\* and the retention (0: none) and labels it was created with.
NoSeries == [exists |-> FALSE, samples |-> << >>, retention |-> 0, labels |-> << >>]
NoTTL == -1
EmptyHash == <<>>

TokenMetrics ==
    [RequestID : ReqIds, SessionID : SessionIds, UserID : Users,
     InputTokens : Tokens, OutputTokens : Tokens, ResponseTimeMs : RespTimes,
     ModelUsed : Models]

(***************************************************************************)
(* Redis commands and Go conversions.                                      *)
(***************************************************************************)
RECURSIVE GCD(_, _)
GCD(a, b) == IF b = 0 THEN a ELSE GCD(b, a % b)

\* A float64 quotient n/d, kept exact.
Ratio(n, d) == LET g == GCD(n, d) IN IF g = 0 THEN <<0, 1>> ELSE <<n \div g, d \div g>>

\* t.Format(time.RFC3339) keeps the whole seconds of t (the string is written
\* here as that number of seconds); t.Unix() likewise.
FormatRFC3339(t) == t \div TicksPerSec
\* time.Parse(time.RFC3339, s): the instant at the start of that second.
ParseRFC3339(s) == s * TicksPerSec
UnixOf(t) == t \div TicksPerSec
\* time.Unix(sec, 0)
TimeUnix(sec) == sec * TicksPerSec

HExists(h, f) == f \in DOMAIN h
\* HGet(key, field).Int() / .Float64() with the error dropped: 0 when absent.
HGetInt(h, f) == IF HExists(h, f) THEN h[f] ELSE 0
HGetFloat(h, f) == IF HExists(h, f) THEN h[f] ELSE <<0, 1>>
\* HMSet / HSet: the given fields are written, the others are kept.
HMSet(h, upd) ==
    [f \in (DOMAIN h) \cup (DOMAIN upd) |-> IF f \in DOMAIN upd THEN upd[f] ELSE h[f]]
\* EXPIRE key d: only an existing key gets the TTL.
ExpireAt(exists, old, t, d) == IF exists THEN t + d ELSE old

WindowDur(w) ==
    CASE w = "5m" -> Dur(Window5mSec)
      [] w = "15m" -> Dur(Window15mSec)
      [] w = "1h" -> Dur(Window1hSec)
      [] w = "24h" -> Dur(Window24hSec)

(***************************************************************************)
(* The store as one value, for the operators that compute a call's effect. *)
(***************************************************************************)
\* The string keys the periodic loops read: << >> when the key does not exist,
\* <<n>> when it holds the number n.
ErrorTypes == {"timeout", "error", "rate_limit"}
ErrorKey(errorType) == <<"errors", errorType, "count">>
CounterKeys ==
    {<<"tokens", "input", "count">>, <<"tokens", "output", "count">>,
     <<"errors", "total", "count">>} \cup {ErrorKey(e) : e \in ErrorTypes}

Store ==
    [requests |-> requests, requestExp |-> requestExp, sessions |-> sessions,
     sessionExp |-> sessionExp, users |-> users, models |-> models,
     hourly |-> hourly, hourlyExp |-> hourlyExp, sessionsActive |-> sessionsActive,
     active |-> active, activeExp |-> activeExp, series |-> series,
     counters |-> counters]

SetStore(s) ==
    /\ requests' = s.requests
    /\ requestExp' = s.requestExp
    /\ sessions' = s.sessions
    /\ sessionExp' = s.sessionExp
    /\ users' = s.users
    /\ models' = s.models
    /\ hourly' = s.hourly
    /\ hourlyExp' = s.hourlyExp
    /\ sessionsActive' = s.sessionsActive
    /\ active' = s.active
    /\ activeExp' = s.activeExp
    /\ series' = s.series
    /\ counters' = s.counters

EmptyStore ==
    [requests |-> [r \in ReqIds |-> EmptyHash], requestExp |-> [r \in ReqIds |-> NoTTL],
     sessions |-> [i \in SessionIds |-> EmptyHash],
     sessionExp |-> [i \in SessionIds |-> NoTTL],
     users |-> [u \in Users |-> EmptyHash], models |-> [k \in Models |-> EmptyHash],
     hourly |-> [k \in Users \X Hours |-> EmptyHash],
     hourlyExp |-> [k \in Users \X Hours |-> NoTTL],
     sessionsActive |-> {},
     active |-> [w \in Windows |-> {}], activeExp |-> [w \in Windows |-> NoTTL],
     series |-> [k \in SeriesKeys |-> NoSeries],
     counters |-> [k \in CounterKeys |-> << >>]]

\* The gauges of a service that has just been constructed: a plain gauge shows
\* 0, a labelled gauge has no value until it is set (<< >>: none, <<v>>: v).
NoGauges ==
    [activeUsers |-> [w \in Windows |-> << >>],
     activeSessions |-> 0,
     modelUsage |-> [k \in Models |-> << >>],
     errorRate |-> [e \in ErrorTypes |-> << >>]]

\* Redis drops a key when its TTL has run out: what is left of the store at time t.
Expired(exp, t) == exp # NoTTL /\ exp <= t

ExpireKeys(s, t) ==
    [s EXCEPT
       !.requests = [r \in ReqIds |-> IF Expired(s.requestExp[r], t) THEN EmptyHash ELSE @[r]],
       !.requestExp = [r \in ReqIds |-> IF Expired(@[r], t) THEN NoTTL ELSE @[r]],
       !.sessions = [i \in SessionIds |-> IF Expired(s.sessionExp[i], t) THEN EmptyHash ELSE @[i]],
       !.sessionExp = [i \in SessionIds |-> IF Expired(@[i], t) THEN NoTTL ELSE @[i]],
       !.hourly = [k \in Users \X Hours |-> IF Expired(s.hourlyExp[k], t) THEN EmptyHash ELSE @[k]],
       !.hourlyExp = [k \in Users \X Hours |-> IF Expired(@[k], t) THEN NoTTL ELSE @[k]],
       !.active = [w \in Windows |-> IF Expired(s.activeExp[w], t) THEN {} ELSE @[w]],
       !.activeExp = [w \in Windows |-> IF Expired(@[w], t) THEN NoTTL ELSE @[w]]]

(***************************************************************************)
(* CaptureTokenMetrics, one store command at a time.                       *)
(***************************************************************************)
HourOf(t) == t \div Dur(SecPerMinute * MinPerHour)
MinuteOf(t) == (t \div Dur(SecPerMinute)) % MinPerHour

RequestData(m, ts) ==
    [session_id |-> m.SessionID, user_id |-> m.UserID, timestamp |-> ts,
     input_tokens |-> m.InputTokens, output_tokens |-> m.OutputTokens,
     response_time_ms |-> m.ResponseTimeMs, model_used |-> m.ModelUsed]

\* ((avg * n) + rt) / (n + 1)
NewAvgResponseTime(avg, n, rt) == Ratio(avg[1] * n + rt * avg[2], avg[2] * (n + 1))

SessionUpdates(cur, m, ts) ==
    [total_input_tokens |-> cur.total_input_tokens + m.InputTokens,
     total_output_tokens |-> cur.total_output_tokens + m.OutputTokens,
     request_count |-> cur.request_count + 1,
     avg_response_time |->
         NewAvgResponseTime(cur.avg_response_time, cur.request_count, m.ResponseTimeMs),
     last_activity |-> FormatRFC3339(TimeUnix(ts))]

\* Mutant: the average taken over the totals before this request is added.
UserUpdatesAvgOfOldTotals(cur, m, ts) ==
    LET newTotalInputTokens == cur.total_input_tokens + m.InputTokens
        newTotalOutputTokens == cur.total_output_tokens + m.OutputTokens
        newTotalRequests == cur.total_requests + 1
    IN  [total_input_tokens |-> newTotalInputTokens,
         total_output_tokens |-> newTotalOutputTokens,
         total_requests |-> newTotalRequests,
         avg_tokens_per_request |->
             Ratio(cur.total_input_tokens + cur.total_output_tokens, newTotalRequests),
         first_seen |-> cur.first_seen,
         last_seen |-> FormatRFC3339(TimeUnix(ts))]

UserUpdates(cur, m, ts) ==
    LET newTotalInputTokens == cur.total_input_tokens + m.InputTokens
        newTotalOutputTokens == cur.total_output_tokens + m.OutputTokens
        newTotalRequests == cur.total_requests + 1
    IN  [total_input_tokens |-> newTotalInputTokens,
         total_output_tokens |-> newTotalOutputTokens,
         total_requests |-> newTotalRequests,
         avg_tokens_per_request |->
             Ratio(newTotalInputTokens + newTotalOutputTokens, newTotalRequests),
         first_seen |-> cur.first_seen,
         last_seen |-> FormatRFC3339(TimeUnix(ts))]

\* Mutant: the request count read is written back, not the incremented one.
ModelUpdatesOldCount(cur, m, ts) ==
    [total_requests |-> cur.total_requests,
     total_input_tokens |-> cur.total_input_tokens + m.InputTokens,
     total_output_tokens |-> cur.total_output_tokens + m.OutputTokens,
     avg_response_time |->
         NewAvgResponseTime(cur.avg_response_time, cur.total_requests, m.ResponseTimeMs),
     last_used |-> FormatRFC3339(TimeUnix(ts))]

\* Mutant: the output tokens are added to the input total as well.
ModelUpdatesTokensConflated(cur, m, ts) ==
    [total_requests |-> cur.total_requests + 1,
     total_input_tokens |-> cur.total_input_tokens + m.InputTokens + m.OutputTokens,
     total_output_tokens |-> cur.total_output_tokens + m.OutputTokens,
     avg_response_time |->
         NewAvgResponseTime(cur.avg_response_time, cur.total_requests, m.ResponseTimeMs),
     last_used |-> FormatRFC3339(TimeUnix(ts))]

ModelUpdates(cur, m, ts) ==
    [total_requests |-> cur.total_requests + 1,
     total_input_tokens |-> cur.total_input_tokens + m.InputTokens,
     total_output_tokens |-> cur.total_output_tokens + m.OutputTokens,
     avg_response_time |->
         NewAvgResponseTime(cur.avg_response_time, cur.total_requests, m.ResponseTimeMs),
     last_used |-> FormatRFC3339(TimeUnix(ts))]

\* The commands of one capture, in program order; ord is the order in which the
\* range over the timeWindows map visits the windows.
WindowCmds(w) == << <<"activity", "SAdd", w>>, <<"activity", "Expire", w>> >>

RECURSIVE AllWindowCmds(_)
AllWindowCmds(ord) ==
    IF ord = << >> THEN << >> ELSE WindowCmds(Head(ord)) \o AllWindowCmds(Tail(ord))

\* Mutant: the model hash is updated before the user hash.
CaptureCmdsModelFirst(ord) ==
    << <<"request", "HMSet", "">>, <<"request", "Expire", "">>,
       <<"session", "HGet", "total_input_tokens">>,
       <<"session", "HGet", "total_output_tokens">>,
       <<"session", "HGet", "request_count">>,
       <<"session", "HGet", "avg_response_time">>,
       <<"session", "HMSet", "">>,
       <<"model", "HGet", "total_requests">>,
       <<"model", "HGet", "total_input_tokens">>,
       <<"model", "HGet", "total_output_tokens">>,
       <<"model", "HGet", "avg_response_time">>,
       <<"model", "HMSet", "">>,
       <<"user", "HGet", "total_input_tokens">>,
       <<"user", "HGet", "total_output_tokens">>,
       <<"user", "HGet", "total_requests">>,
       <<"user", "HGet", "first_seen">>,
       <<"user", "HMSet", "">>,
       <<"hourly", "ZAdd", "">>, <<"hourly", "Expire", "">>,
       <<"activity", "SAdd", "sessions">> >> \o AllWindowCmds(ord)

CaptureCmds(ord) ==
    << <<"request", "HMSet", "">>, <<"request", "Expire", "">>,
       <<"session", "HGet", "total_input_tokens">>,
       <<"session", "HGet", "total_output_tokens">>,
       <<"session", "HGet", "request_count">>,
       <<"session", "HGet", "avg_response_time">>,
       <<"session", "HMSet", "">>,
       <<"user", "HGet", "total_input_tokens">>,
       <<"user", "HGet", "total_output_tokens">>,
       <<"user", "HGet", "total_requests">>,
       <<"user", "HGet", "first_seen">>,
       <<"user", "HMSet", "">>,
       <<"hourly", "ZAdd", "">>, <<"hourly", "Expire", "">>,
       <<"model", "HGet", "total_requests">>,
       <<"model", "HGet", "total_input_tokens">>,
       <<"model", "HGet", "total_output_tokens">>,
       <<"model", "HGet", "avg_response_time">>,
       <<"model", "HMSet", "">>,
       <<"activity", "SAdd", "sessions">> >> \o AllWindowCmds(ord)

DefaultOrder == <<"5m", "15m", "1h", "24h">>
WindowOrders == {DefaultOrder, <<"24h", "1h", "15m", "5m">>}

StageError(stage) ==
    CASE stage = "request" -> "failed to store request metrics"
      [] stage = "session" -> "failed to update session metrics"
      [] stage = "user" -> "failed to update user metrics"
      [] stage = "hourly" -> "failed to update time-series data"
      [] stage = "model" -> "failed to update model usage"
      [] stage = "activity" -> "failed to update real-time activity"

\* The value a failed or successful HGet leaves in the caller's local variable.
\* The error of .Int() / .Float64() is dropped (the zero value is used); for
\* first_seen only redis.Nil is handled, any other error leaves the empty
\* string, written here as NoTTL's neighbour EmptyString.
EmptyString == -2

ReadField(h, f, ts, fails) ==
    CASE f = "first_seen" ->
            IF fails THEN EmptyString
            ELSE IF HExists(h, f) THEN h[f] ELSE FormatRFC3339(TimeUnix(ts))
      [] f = "avg_response_time" -> IF fails THEN <<0, 1>> ELSE HGetFloat(h, f)
      [] OTHER -> IF fails THEN 0 ELSE HGetInt(h, f)

StageHash(s, stage, m) ==
    CASE stage = "session" -> s.sessions[m.SessionID]
      [] stage = "user" -> s.users[m.UserID]
      [] stage = "model" -> s.models[m.ModelUsed]

\* c = [s: the store, cur: the values read so far, err: the error returned (Nil:
\* none yet), failed: the commands that failed]; m the metrics, t0 the time at
\* entry (now := time.Now()), t the time of this command.
ExecCapture(c, cmd, m, t0, t, fails) ==
    LET s == c.s
        stage == cmd[1]
        op == cmd[2]
        arg == cmd[3]
        ts == UnixOf(t0)
        c1 == IF fails THEN [c EXCEPT !.failed = @ \cup {cmd}] ELSE c
        fatal == [c1 EXCEPT !.err = StageError(stage)]
        hk == <<m.UserID, HourOf(t0)>>
    IN  CASE op = "HGet" ->
               [c1 EXCEPT !.cur = (arg :> ReadField(StageHash(s, stage, m), arg, ts, fails)) @@ @]
          [] stage = "request" /\ op = "HMSet" ->
               IF fails THEN fatal
               ELSE [c EXCEPT !.s.requests[m.RequestID] = HMSet(@, RequestData(m, ts))]
          [] stage = "request" /\ op = "Expire" ->
               IF fails THEN c1
               ELSE [c EXCEPT !.s.requestExp[m.RequestID] =
                        ExpireAt(s.requests[m.RequestID] # EmptyHash, @, t, Dur(RequestTTLSec))]
          [] stage = "session" /\ op = "HMSet" ->
               IF fails THEN fatal
               ELSE [c EXCEPT !.s.sessions[m.SessionID] = HMSet(@, SessionUpdates(c.cur, m, ts)),
                              !.cur = << >>]
          [] stage = "user" /\ op = "HMSet" ->
               IF fails THEN fatal
               ELSE [c EXCEPT !.s.users[m.UserID] = HMSet(@, UserUpdates(c.cur, m, ts)),
                              !.cur = << >>]
          [] stage = "hourly" /\ op = "ZAdd" ->
               IF fails THEN fatal
               ELSE [c EXCEPT !.s.hourly[hk] =
                        HMSet(@, (<<m.InputTokens, m.OutputTokens>> :> MinuteOf(t0)))]
          [] stage = "hourly" /\ op = "Expire" ->
               IF fails THEN c1
               ELSE [c EXCEPT !.s.hourlyExp[hk] =
                        ExpireAt(s.hourly[hk] # EmptyHash, @, t, Dur(HourlyTTLSec))]
          [] stage = "model" /\ op = "HMSet" ->
               IF fails THEN fatal
               ELSE [c EXCEPT !.s.models[m.ModelUsed] = HMSet(@, ModelUpdates(c.cur, m, ts)),
                              !.cur = << >>]
          [] stage = "activity" /\ op = "SAdd" /\ arg = "sessions" ->
               IF fails THEN c1
               ELSE [c EXCEPT !.s.sessionsActive = @ \cup {m.SessionID}]
          [] stage = "activity" /\ op = "SAdd" ->
               IF fails THEN c1 ELSE [c EXCEPT !.s.active[arg] = @ \cup {m.UserID}]
          [] stage = "activity" /\ op = "Expire" ->
               IF fails THEN c1
               ELSE [c EXCEPT !.s.activeExp[arg] =
                        ExpireAt(s.active[arg] # {}, @, t, WindowDur(arg))]

NewCall(s) == [s |-> s, cur |-> << >>, err |-> Nil, failed |-> {}]

\* Mutant: the error of a stage is kept for the return value, but the later
\* stages run all the same.
RECURSIVE RunCaptureNoEarlyReturn(_, _, _, _, _, _)
RunCaptureNoEarlyReturn(c, cmds, i, m, t, F) ==
    IF i > Len(cmds) THEN c
    ELSE LET d == ExecCapture(c, cmds[i], m, t, t, cmds[i] \in F)
         IN  RunCaptureNoEarlyReturn(IF c.err # Nil THEN [d EXCEPT !.err = c.err] ELSE d,
                                     cmds, i + 1, m, t, F)

\* The whole call, run without interruption from command i on: F is the set of
\* commands the store fails.
RECURSIVE RunCapture(_, _, _, _, _, _)
RunCapture(c, cmds, i, m, t, F) ==
    IF i > Len(cmds) \/ c.err # Nil THEN c
    ELSE RunCapture(ExecCapture(c, cmds[i], m, t, t, cmds[i] \in F), cmds, i + 1, m, t, F)

(***************************************************************************)
(* GetOrCreateSession.                                                     *)
(***************************************************************************)
\* Mutant: the comparison of the activity test reversed.
IsFreshReversed(lastActivityStr, t) ==
    t - ParseRFC3339(lastActivityStr) > Dur(SessionTimeoutSec)

\* Mutant: the age of the session compared with the TTL of its key.
IsFreshUntilTTL(lastActivityStr, t) == t - ParseRFC3339(lastActivityStr) < Dur(SessionTTLSec)

\* time.Since(lastActivity) < 30*time.Minute, lastActivity parsed from the hash.
IsFresh(lastActivityStr, t) == t - ParseRFC3339(lastActivityStr) < Dur(SessionTimeoutSec)

\* The loop body's test: the session is the user's and still active.
IsActiveSessionOf(h, userID, t) ==
    /\ HExists(h, "user_id")
    /\ h["user_id"] = userID
    /\ HExists(h, "last_activity")
    /\ IsFresh(h["last_activity"], t)

SessionData(userID, modelUsed, t) ==
    [user_id |-> userID, start_time |-> FormatRFC3339(t),
     last_activity |-> FormatRFC3339(t), total_input_tokens |-> 0,
     total_output_tokens |-> 0, request_count |-> 0, model_used |-> modelUsed,
     avg_response_time |-> <<0, 1>>, status |-> "active"]

\* GenerateSessionID: an id never handed out before (ids are numbered in the
\* order they are generated).
GenerateSessionID == nextSid + 1

\* The store after the create branch: HMSet, SAdd sessions:active, Expire.
CreateSession(s, sid, userID, modelUsed, t) ==
    LET s1 == [s EXCEPT !.sessions[sid] = HMSet(@, SessionData(userID, modelUsed, t))]
        s2 == [s1 EXCEPT !.sessionsActive = @ \cup {sid}]
    IN  [s2 EXCEPT !.sessionExp[sid] =
            ExpireAt(s2.sessions[sid] # EmptyHash, @, t, Dur(SessionTTLSec))]

\* The store after the reuse branch: HSet last_activity.
TouchSession(s, sid, t) ==
    [s EXCEPT !.sessions[sid] = HMSet(@, [last_activity |-> FormatRFC3339(t)])]

(***************************************************************************)
(* History variables of the properties.                                   *)
(***************************************************************************)
InitHist ==
    [userN |-> [u \in Users |-> 0], userIn |-> [u \in Users |-> 0],
     userOut |-> [u \in Users |-> 0], modelN |-> [k \in Models |-> 0],
     modelIn |-> [k \in Models |-> 0], modelOut |-> [k \in Models |-> 0],
     sessN |-> [i \in SessionIds |-> 0], sessIn |-> [i \in SessionIds |-> 0],
     sessOut |-> [i \in SessionIds |-> 0], sessRt |-> [i \in SessionIds |-> 0],
     firstCapture |-> [u \in Users |-> -1],
     lastCapture |-> [u \in Users |-> -1],
     lastTouch |-> [i \in SessionIds |-> -1],
     contributors |-> [i \in SessionIds |-> {}],
     snapshot |-> [i \in SessionIds |-> {}],
     created |-> {},
     raced |-> {},
     captures |-> 0,
     readFailed |-> FALSE]

\* A capture of m entered at time t has run to the end of c.
HistAfterCapture(h, c, m, t) ==
    LET ok == c.err = Nil
        sessWritten == c.err \notin {StageError("request"), StageError("session")}
    IN  [h EXCEPT
           !.userN[m.UserID] = IF ok THEN @ + 1 ELSE @,
           !.userIn[m.UserID] = IF ok THEN @ + m.InputTokens ELSE @,
           !.userOut[m.UserID] = IF ok THEN @ + m.OutputTokens ELSE @,
           !.modelN[m.ModelUsed] = IF ok THEN @ + 1 ELSE @,
           !.modelIn[m.ModelUsed] = IF ok THEN @ + m.InputTokens ELSE @,
           !.modelOut[m.ModelUsed] = IF ok THEN @ + m.OutputTokens ELSE @,
           !.sessN[m.SessionID] = IF ok THEN @ + 1 ELSE @,
           !.sessIn[m.SessionID] = IF ok THEN @ + m.InputTokens ELSE @,
           !.sessOut[m.SessionID] = IF ok THEN @ + m.OutputTokens ELSE @,
           !.sessRt[m.SessionID] = IF ok THEN @ + m.ResponseTimeMs ELSE @,
           !.firstCapture[m.UserID] = IF ok /\ @ = -1 THEN t ELSE @,
           !.lastCapture[m.UserID] = IF ok THEN t ELSE @,
           !.lastTouch[m.SessionID] = IF sessWritten THEN t ELSE @,
           !.contributors[m.SessionID] = IF sessWritten THEN @ \cup {m.UserID} ELSE @,
           !.captures = @ + 1,
           !.readFailed = @ \/ \E cmd \in c.failed : cmd[2] = "HGet"]

\* TokenMetrics{}: the zero value.
NoMetrics ==
    [RequestID |-> "", SessionID |-> 0, UserID |-> "", InputTokens |-> 0,
     OutputTokens |-> 0, ResponseTimeMs |-> 0, ModelUsed |-> ""]

NoRet == [op |-> "none", user |-> "", sid |-> -1, created |-> FALSE, err |-> Nil,
          failed |-> {}, m |-> NoMetrics]
IdleProcs == << >>

(***************************************************************************)
(* Calls executed one at a time, each as a whole.                          *)
(***************************************************************************)
InitAt(t0, pr) ==
    /\ now = t0
    /\ requests = EmptyStore.requests
    /\ requestExp = EmptyStore.requestExp
    /\ sessions = EmptyStore.sessions
    /\ sessionExp = EmptyStore.sessionExp
    /\ users = EmptyStore.users
    /\ models = EmptyStore.models
    /\ hourly = EmptyStore.hourly
    /\ hourlyExp = EmptyStore.hourlyExp
    /\ sessionsActive = EmptyStore.sessionsActive
    /\ active = EmptyStore.active
    /\ activeExp = EmptyStore.activeExp
    /\ series = EmptyStore.series
    /\ counters = EmptyStore.counters
    /\ gauges = NoGauges
    /\ nextSid = 0
    /\ procs = pr
    /\ ret = NoRet
    /\ nops = 0
    /\ nticks = 0
    /\ hist = InitHist

Init == InitAt(0, IdleProcs)

GetOrCreateSession(userID, modelUsed) ==
    LET matches == {sid \in sessionsActive : IsActiveSessionOf(sessions[sid], userID, now)}
    IN  /\ nops < MaxOps
        /\ \/ \E sid \in matches :
                /\ SetStore(TouchSession(Store, sid, now))
                /\ nextSid' = nextSid
                /\ ret' = [NoRet EXCEPT !.op = "GetOrCreateSession", !.user = userID,
                                        !.sid = sid]
                /\ hist' = [hist EXCEPT !.lastTouch[sid] = now]
           \/ /\ matches = {}
              /\ nextSid < MaxSessions
              /\ SetStore(CreateSession(Store, GenerateSessionID, userID, modelUsed, now))
              /\ nextSid' = GenerateSessionID
              /\ ret' = [NoRet EXCEPT !.op = "GetOrCreateSession", !.user = userID,
                                      !.sid = GenerateSessionID, !.created = TRUE]
              /\ hist' = [hist EXCEPT !.lastTouch[GenerateSessionID] = now,
                                      !.snapshot[GenerateSessionID] = sessionsActive,
                                      !.created = @ \cup {GenerateSessionID}]
        /\ nops' = nops + 1
        /\ UNCHANGED <<now, procs, nticks, gauges>>

\* The call with the commands in F failing (F = {}: a store that works).
CaptureTokenMetrics(m, F) ==
    LET c == RunCapture(NewCall(Store), CaptureCmds(DefaultOrder), 1, m, now, F)
    IN  /\ nops < MaxOps
        /\ m.SessionID <= nextSid
        /\ SetStore(c.s)
        /\ ret' = [NoRet EXCEPT !.op = "CaptureTokenMetrics", !.user = m.UserID,
                                !.sid = m.SessionID, !.err = c.err, !.failed = c.failed,
                                !.m = m]
        /\ hist' = HistAfterCapture(hist, c, m, now)
        /\ nops' = nops + 1
        /\ UNCHANGED <<now, nextSid, procs, nticks, gauges>>

\* Time passes; Redis drops the keys whose TTL has run out.
Tick(d) ==
    /\ nticks < MaxTicks
    /\ now' = now + d
    /\ SetStore(ExpireKeys(Store, now + d))
    /\ nticks' = nticks + 1
    /\ ret' = NoRet
    /\ UNCHANGED <<nextSid, procs, nops, hist, gauges>>

\* Calls one at a time on a clock that stands still: the aggregation of the
\* captured counts.
SeqMetrics == {m \in TokenMetrics : m.RequestID = "r1" /\ m.ResponseTimeMs = 10}

Next ==
    \/ \E u \in Users, k \in Models : GetOrCreateSession(u, k)
    \/ \E m \in SeqMetrics : CaptureTokenMetrics(m, {})

Spec == Init /\ [][Next]_vars

\* Calls one at a time while time passes; the service starts at any fraction
\* of a second.
TimeMetrics ==
    {m \in SeqMetrics : m.ModelUsed = "m1" /\ m.InputTokens = 1 /\ m.OutputTokens = 1}

InitTime == \E t0 \in 0..(TicksPerSec - 1) : InitAt(t0, IdleProcs)

NextTime ==
    \/ \E u \in Users : GetOrCreateSession(u, "m1")
    \/ \E m \in TimeMetrics : CaptureTokenMetrics(m, {})
    \/ \E d \in TickSteps : Tick(d)

SpecTime == InitTime /\ [][NextTime]_vars

\* Calls one at a time against a store that may fail up to MaxFailures of the
\* commands of a capture (a dropped connection, a timeout).
AllCmds == {CaptureCmds(DefaultOrder)[i] : i \in 1..Len(CaptureCmds(DefaultOrder))}

RECURSIVE FailSetsUpTo(_)
FailSetsUpTo(n) ==
    IF n = 0 THEN {{}}
    ELSE LET prev == FailSetsUpTo(n - 1)
         IN  prev \cup {F \cup {c} : F \in prev, c \in AllCmds}

\* The captures made against it: a request may carry no input tokens.
FailMetrics == {m \in SeqMetrics : m.ModelUsed = "m1" /\ m.OutputTokens = 1}

NextFail ==
    \/ /\ nops < MaxFailOps
       /\ \E u \in Users : GetOrCreateSession(u, "m1")
    \/ /\ nops < MaxFailOps
       /\ \E m \in FailMetrics, F \in FailSetsUpTo(MaxFailures) : CaptureTokenMetrics(m, F)

SpecFail == Init /\ [][NextFail]_vars

\* Calls one at a time over the life of a session: the clock advances by the
\* activity timeout or by the TTL of the session key; captures carry session
\* ids that GetOrCreateSession returned.
LifeMetrics == {m \in TimeMetrics : m.SessionID # 0}

NextLife ==
    \/ \E u \in Users : GetOrCreateSession(u, "m1")
    \/ \E m \in LifeMetrics : CaptureTokenMetrics(m, {})
    \/ \E d \in LifeSteps : Tick(d)

SpecLife == Init /\ [][NextLife]_vars

(***************************************************************************)
(* Calls running in goroutines of their own, one store command per step,   *)
(* on a store that works; the clock stands still.                          *)
(***************************************************************************)
Procs == 1..NumProcs

\* Calls a goroutine may make, one after the other.
Budget(p) == IF p = 1 THEN 1 ELSE MaxProcOps

Idle(n) == [op |-> "idle", n |-> n]
IsIdle(p) == procs[p].op = "idle"
AllIdle == \A p \in Procs : IsIdle(p)

\* The commands before the range over timeWindows.
FixedCmds == CaptureCmds(<< >>)

\* The hash a goroutine is reading and about to write back: it has read a
\* total of that stage and not yet issued the stage's HMSet.
StageOfPc(pc) == IF pc <= Len(FixedCmds) THEN FixedCmds[pc][1] ELSE "activity"
StageKey(stage, m) ==
    CASE stage = "session" -> <<"session", m.SessionID>>
      [] stage = "user" -> <<"user", m.UserID>>
      [] stage = "model" -> <<"model", m.ModelUsed>>
      [] OTHER -> <<"none", 0>>
InReadModifyWrite(q, key) ==
    /\ procs[q].op = "capture"
    /\ procs[q].cur # << >>
    /\ StageKey(StageOfPc(procs[q].pc), procs[q].m) = key

RacedAfter(p, cmd, m) ==
    IF cmd[2] = "HGet" /\ \E q \in Procs \ {p} : InReadModifyWrite(q, StageKey(cmd[1], m))
    THEN hist.raced \cup {StageKey(cmd[1], m)}
    ELSE hist.raced

CaptureReturn(p, c, m, h) ==
    /\ procs' = [procs EXCEPT ![p] = Idle(procs[p].n)]
    /\ ret' = [NoRet EXCEPT !.op = "CaptureTokenMetrics", !.user = m.UserID,
                            !.sid = m.SessionID, !.err = c.err, !.m = m]
    /\ hist' = HistAfterCapture(h, c, m, now)

\* CaptureTokenMetrics is entered: now := time.Now() and the first command.
CaptureStart(p, m) ==
    LET c == ExecCapture(NewCall(Store), FixedCmds[1], m, now, now, FALSE)
    IN  /\ IsIdle(p)
        /\ procs[p].n < Budget(p)
        /\ m.SessionID <= nextSid
        /\ SetStore(c.s)
        /\ procs' = [procs EXCEPT ![p] = [op |-> "capture", n |-> procs[p].n + 1, m |-> m,
                                          t0 |-> now, pc |-> 2, cur |-> c.cur,
                                          todo |-> << >>, w |-> ""]]
        /\ nops' = nops + 1
        /\ UNCHANGED <<now, nextSid, ret, nticks, hist, gauges>>

\* The next command before the window loop.
CaptureStep(p) ==
    LET q == procs[p]
        cmd == FixedCmds[q.pc]
        c == ExecCapture([NewCall(Store) EXCEPT !.cur = q.cur], cmd, q.m, q.t0, now, FALSE)
    IN  /\ q.op = "capture"
        /\ q.pc <= Len(FixedCmds)
        /\ SetStore(c.s)
        /\ procs' = [procs EXCEPT ![p].pc = q.pc + 1, ![p].cur = c.cur]
        /\ hist' = [hist EXCEPT !.raced = RacedAfter(p, cmd, q.m)]
        /\ UNCHANGED <<now, nextSid, ret, nops, nticks, gauges>>

\* The window loop starts: the range over the timeWindows map fixes an order
\* (Go leaves it open; the model lets it be one of WindowOrders) and issues
\* the SAdd of its first window, ...
CaptureWindowFirst(p) ==
    LET q == procs[p]
    IN  /\ q.op = "capture"
        /\ q.pc > Len(FixedCmds)
        /\ q.todo = << >>
        /\ \E ord \in WindowOrders :
              LET c == ExecCapture([NewCall(Store) EXCEPT !.cur = q.cur],
                                   <<"activity", "SAdd", Head(ord)>>, q.m, q.t0, now, FALSE)
              IN  /\ SetStore(c.s)
                  /\ procs' = [procs EXCEPT ![p].todo = ord, ![p].w = Head(ord)]
        /\ UNCHANGED <<now, nextSid, ret, nops, nticks, hist, gauges>>

\* ... the SAdd of a later window, ...
CaptureWindowSAdd(p) ==
    LET q == procs[p]
        c == ExecCapture([NewCall(Store) EXCEPT !.cur = q.cur],
                         <<"activity", "SAdd", Head(q.todo)>>, q.m, q.t0, now, FALSE)
    IN  /\ q.op = "capture"
        /\ q.pc > Len(FixedCmds)
        /\ q.todo # << >>
        /\ q.w = ""
        /\ SetStore(c.s)
        /\ procs' = [procs EXCEPT ![p].w = Head(q.todo)]
        /\ UNCHANGED <<now, nextSid, ret, nops, nticks, hist, gauges>>

\* ... and the Expire of the window just added; after the last window the
\* call returns.
CaptureWindowExpire(p) ==
    LET q == procs[p]
        c == ExecCapture([NewCall(Store) EXCEPT !.cur = q.cur],
                         <<"activity", "Expire", q.w>>, q.m, q.t0, now, FALSE)
    IN  /\ q.op = "capture"
        /\ q.pc > Len(FixedCmds)
        /\ q.w # ""
        /\ SetStore(c.s)
        /\ IF Len(q.todo) = 1
           THEN CaptureReturn(p, c, q.m, hist)
           ELSE /\ procs' = [procs EXCEPT ![p].todo = Tail(q.todo), ![p].w = ""]
                /\ UNCHANGED <<ret, hist>>
        /\ UNCHANGED <<now, nextSid, nops, nticks, gauges>>

\* GetOrCreateSession is entered: SMembers sessions:active.
GocsStart(p, userID, modelUsed) ==
    /\ IsIdle(p)
    /\ procs[p].n < Budget(p)
    /\ procs' = [procs EXCEPT ![p] = [op |-> "gocs", n |-> procs[p].n + 1, user |-> userID,
                                      model |-> modelUsed, pc |-> "loop",
                                      snap |-> sessionsActive, scan |-> sessionsActive,
                                      cand |-> -1]]
    /\ nops' = nops + 1
    /\ UNCHANGED <<now, storeVars, nextSid, ret, nticks, hist, gauges>>

\* The loop takes the next id of the reply (in any order): HGet user_id.
GocsHGetUser(p) ==
    LET q == procs[p]
    IN  /\ q.op = "gocs"
        /\ q.pc = "loop"
        /\ \E sid \in q.scan :
              LET h == sessions[sid]
              IN  IF HExists(h, "user_id") /\ h["user_id"] = q.user
                  THEN procs' = [procs EXCEPT ![p].pc = "last", ![p].cand = sid,
                                              ![p].scan = q.scan \ {sid}]
                  ELSE procs' = [procs EXCEPT ![p].scan = q.scan \ {sid}]
        /\ UNCHANGED <<now, storeVars, nextSid, ret, nops, nticks, hist, gauges>>

\* HGet last_activity and the test of time.Since.
GocsHGetLast(p) ==
    LET q == procs[p]
        h == sessions[q.cand]
    IN  /\ q.op = "gocs"
        /\ q.pc = "last"
        /\ IF HExists(h, "last_activity") /\ IsFresh(h["last_activity"], now)
           THEN procs' = [procs EXCEPT ![p].pc = "touch"]
           ELSE procs' = [procs EXCEPT ![p].pc = "loop", ![p].cand = -1]
        /\ UNCHANGED <<now, storeVars, nextSid, ret, nops, nticks, hist, gauges>>

\* HSet last_activity; the session id is returned.
GocsReuse(p) ==
    LET q == procs[p]
    IN  /\ q.op = "gocs"
        /\ q.pc = "touch"
        /\ SetStore(TouchSession(Store, q.cand, now))
        /\ procs' = [procs EXCEPT ![p] = Idle(q.n)]
        /\ ret' = [NoRet EXCEPT !.op = "GetOrCreateSession", !.user = q.user, !.sid = q.cand]
        /\ hist' = [hist EXCEPT !.lastTouch[q.cand] = now]
        /\ UNCHANGED <<now, nextSid, nops, nticks, gauges>>

\* The loop ended without a match: a new id and the HMSet of the new hash.
GocsHMSet(p) ==
    LET q == procs[p]
        sid == GenerateSessionID
    IN  /\ q.op = "gocs"
        /\ q.pc = "loop"
        /\ q.scan = {}
        /\ nextSid < MaxSessions
        /\ SetStore([Store EXCEPT !.sessions[sid] =
                        HMSet(@, SessionData(q.user, q.model, now))])
        /\ nextSid' = sid
        /\ procs' = [procs EXCEPT ![p].pc = "sadd", ![p].cand = sid]
        /\ hist' = [hist EXCEPT !.lastTouch[sid] = now, !.snapshot[sid] = q.snap,
                                !.created = @ \cup {sid}]
        /\ UNCHANGED <<now, ret, nops, nticks, gauges>>

GocsSAdd(p) ==
    LET q == procs[p]
    IN  /\ q.op = "gocs"
        /\ q.pc = "sadd"
        /\ SetStore([Store EXCEPT !.sessionsActive = @ \cup {q.cand}])
        /\ procs' = [procs EXCEPT ![p].pc = "expire"]
        /\ UNCHANGED <<now, nextSid, ret, nops, nticks, hist, gauges>>

\* Expire of the new hash; the new id is returned.
GocsExpire(p) ==
    LET q == procs[p]
    IN  /\ q.op = "gocs"
        /\ q.pc = "expire"
        /\ SetStore([Store EXCEPT !.sessionExp[q.cand] =
                        ExpireAt(sessions[q.cand] # EmptyHash, @, now, Dur(SessionTTLSec))])
        /\ procs' = [procs EXCEPT ![p] = Idle(q.n)]
        /\ ret' = [NoRet EXCEPT !.op = "GetOrCreateSession", !.user = q.user,
                                !.sid = q.cand, !.created = TRUE]
        /\ UNCHANGED <<now, nextSid, nops, nticks, hist, gauges>>

ConcMetrics == {m \in TimeMetrics : m.SessionID = 0}

InitConc == InitAt(0, [p \in Procs |-> Idle(0)])

NextConc ==
    \E p \in Procs :
        \/ \E m \in ConcMetrics : CaptureStart(p, m)
        \/ CaptureStep(p)
        \/ CaptureWindowFirst(p)
        \/ CaptureWindowSAdd(p)
        \/ CaptureWindowExpire(p)
        \/ \E u \in Users : GocsStart(p, u, "m1")
        \/ GocsHGetUser(p)
        \/ GocsHGetLast(p)
        \/ GocsReuse(p)
        \/ GocsHMSet(p)
        \/ GocsSAdd(p)
        \/ GocsExpire(p)

SpecConc == InitConc /\ [][NextConc]_vars

(***************************************************************************)
(* ExtractUserID.  A string is a sequence of pieces, "" the empty sequence; *)
(* a header, a query parameter or a cookie is the sequence of the values    *)
(* the request carries for it.                                              *)
(***************************************************************************)
HeaderValues == {<< >>, << << >> >>, << <<"alice">> >>}
QueryValues == {<< >>, << << >> >>, << <<"bob">> >>}
CookieValues == {<< >>, << << >> >>, << <<"carol">> >>}
ForwardedValues == {<< >>, << <<"10.0.0.1">> >>}
RemoteAddrs == {<<"10.0.0.2", ":", "5000">>, <<"[", ":", ":", "1", "]", ":", "5000">>}

HTTPRequests ==
    [XUserID : HeaderValues, user_id : QueryValues, user_session : CookieValues,
     XForwardedFor : ForwardedValues, RemoteAddr : RemoteAddrs]

\* Header.Get / url.Values.Get: the first value, "" when there is none.
GetFirst(vals) == IF vals = << >> THEN << >> ELSE Head(vals)

\* strings.Replace(s, old, new, -1)
Replace(s, old, new) == [i \in 1..Len(s) |-> IF s[i] = old THEN new ELSE s[i]]

\* Mutant: the query parameter looked at before the header.
ExtractUserIDQueryFirst(r) ==
    IF GetFirst(r.user_id) # << >> THEN GetFirst(r.user_id)
    ELSE IF GetFirst(r.XUserID) # << >> THEN GetFirst(r.XUserID)
    ELSE IF r.user_session # << >> THEN Head(r.user_session)
    ELSE LET ip == IF GetFirst(r.XForwardedFor) = << >> THEN r.RemoteAddr
                   ELSE GetFirst(r.XForwardedFor)
         IN  <<"user_">> \o Replace(ip, ":", "_")

ExtractUserID(r) ==
    IF GetFirst(r.XUserID) # << >> THEN GetFirst(r.XUserID)
    ELSE IF GetFirst(r.user_id) # << >> THEN GetFirst(r.user_id)
    ELSE IF r.user_session # << >> THEN Head(r.user_session)
    ELSE LET ip == IF GetFirst(r.XForwardedFor) = << >> THEN r.RemoteAddr
                   ELSE GetFirst(r.XForwardedFor)
         IN  <<"user_">> \o Replace(ip, ":", "_")

\* A request arrives and its user id is extracted.
CallExtractUserID(r) ==
    /\ ret' = [op |-> "ExtractUserID", r |-> r, userID |-> ExtractUserID(r)]
    /\ UNCHANGED <<now, storeVars, nextSid, procs, nops, nticks, hist, gauges>>

NextExtract == \E r \in HTTPRequests : CallExtractUserID(r)

SpecExtract == Init /\ [][NextExtract]_vars

(***************************************************************************)
(* GetAnalytics and its HTTP handler (src/token_analytics_service.go), one  *)
(* store command per step, while captures go on.  A store key is the        *)
(* sequence of its pieces between the colons.                               *)
(***************************************************************************)
TopUsersLimit == 10

\* User ids the store holds when the analytics are asked for, in the order of
\* their first capture; an id may itself contain a colon.
AnalyticsUserOrder ==
    <<"team:alice", "a01", "a02", "a03", "a04", "a05", "a06", "a07", "a08", "a09", "a10">>
AnalyticsUsers == {AnalyticsUserOrder[i] : i \in 1..Len(AnalyticsUserOrder)}
PopulatedCounts == {0, TopUsersLimit + 1}

\* strings.Split(id, ":")
Pieces(u) == IF u = "team:alice" THEN <<"team", "alice">> ELSE <<u>>
\* fmt.Sprintf("user:%s:tokens", id), fmt.Sprintf("user:%s:tokens:hourly:%s", id, hour)
UserKey(u) == <<"user">> \o Pieces(u) \o <<"tokens">>
HourlyKey(u, h) == <<"user">> \o Pieces(u) \o <<"tokens", "hourly", ToString(h)>>
ModelKey(k) == <<"model", k, "usage">>
\* The glob patterns user:*:tokens and model:*:usage.
MatchesPattern(key, first, last) ==
    Len(key) >= 3 /\ key[1] = first /\ key[Len(key)] = last
\* strings.Split(key, ":")[1]
SplitField1(key) == key[2]

Reverse(seq) == [i \in 1..Len(seq) |-> seq[Len(seq) + 1 - i]]

\* KEYS user:*:tokens: the matching keys the store holds, in one of the orders
\* the server may list them in.
UserKeysHeld(s) ==
    {UserKey(u) : u \in {v \in DOMAIN s.users : s.users[v] # EmptyHash}}
        \cup {HourlyKey(k[1], k[2]) : k \in {j \in DOMAIN s.hourly : s.hourly[j] # EmptyHash}}
KeysUserTokens(s) ==
    LET all == AnalyticsUserOrder \o <<"u1", "u2">>
        matching == {key \in UserKeysHeld(s) : MatchesPattern(key, "user", "tokens")}
        held == SelectSeq(all, LAMBDA u : UserKey(u) \in matching)
        keys == [i \in 1..Len(held) |-> UserKey(held[i])]
    IN  {keys, Reverse(keys)}
KeysModelUsage(s) ==
    LET all == <<"m1", "m2">>
        held == SelectSeq(all, LAMBDA k : s.models[k] # EmptyHash
                                          /\ MatchesPattern(ModelKey(k), "model", "usage"))
        keys == [i \in 1..Len(held) |-> ModelKey(held[i])]
    IN  {keys, Reverse(keys)}

\* The user (model) whose hash a key names.
UserOfKey(s, key) == CHOOSE u \in DOMAIN s.users : UserKey(u) = key
ModelOfKey(s, key) == CHOOSE k \in DOMAIN s.models : ModelKey(k) = key

UserStats(key, userData) ==
    [UserID |-> SplitField1(key),
     TotalInputTokens |-> HGetInt(userData, "total_input_tokens"),
     TotalOutputTokens |-> HGetInt(userData, "total_output_tokens"),
     TotalSessions |-> HGetInt(userData, "total_requests"),
     AvgTokensPerRequest |-> HGetFloat(userData, "avg_tokens_per_request"),
     LastSeen |-> IF HExists(userData, "last_seen") THEN userData["last_seen"] ELSE EmptyString]

ModelStats(modelData) ==
    [TotalRequests |-> HGetInt(modelData, "total_requests"),
     TotalInputTokens |-> HGetInt(modelData, "total_input_tokens"),
     TotalOutputTokens |-> HGetInt(modelData, "total_output_tokens"),
     AvgResponseTime |-> HGetFloat(modelData, "avg_response_time"),
     AvgTokensPerSecond |-> <<0, 1>>]

\* if len(users) > limit { users = users[:limit] }
LimitResults(list, limit) == IF Len(list) > limit THEN SubSeq(list, 1, limit) ELSE list

AnalyticsResponse(t) ==
    [ActiveUsers5m |-> 0, ActiveUsers1h |-> 0, ActiveSessions |-> 0,
     TopUsers |-> << >>, ModelUsage |-> << >>, Timestamp |-> UnixOf(t)]

\* analyticsHandler: the status and body written for what GetAnalytics returned.
AnalyticsHandlerResponse(analytics, err) ==
    IF err # Nil THEN [status |-> 500, body |-> Nil, err |-> err]
    ELSE [status |-> 200, body |-> analytics, err |-> Nil]

\* The store before the analytics are asked for: the first k users of
\* AnalyticsUserOrder have each made one capture.
AnalyticsEmptyStore ==
    [EmptyStore EXCEPT
       !.users = [u \in Users \cup AnalyticsUsers |-> EmptyHash],
       !.hourly = [k \in (Users \cup AnalyticsUsers) \X Hours |-> EmptyHash],
       !.hourlyExp = [k \in (Users \cup AnalyticsUsers) \X Hours |-> NoTTL]]

PopulateMetrics(k) ==
    [RequestID |-> "r2", SessionID |-> 0, UserID |-> AnalyticsUserOrder[k],
     InputTokens |-> k, OutputTokens |-> 1, ResponseTimeMs |-> 10, ModelUsed |-> "m2"]

RECURSIVE Populated(_)
Populated(k) ==
    IF k = 0 THEN AnalyticsEmptyStore
    ELSE RunCapture(NewCall(Populated(k - 1)), CaptureCmds(DefaultOrder), 1,
                    PopulateMetrics(k), 0, {}).s

\* Whether the next store command fails: always when the store is unreachable
\* (down), else at most failsLeft times.
FailChoices(q) == IF q.down THEN {TRUE} ELSE IF q.failsLeft > 0 THEN {TRUE, FALSE} ELSE {FALSE}
AfterCmd(q, fails) ==
    [q EXCEPT !.failed = IF fails THEN @ + 1 ELSE @,
              !.failsLeft = IF fails /\ ~q.down THEN @ - 1 ELSE @]

\* GetAnalytics returns (response, nil) and the handler answers.
GaReturn(p, q) ==
    /\ procs' = [procs EXCEPT ![p] = Idle(q.n)]
    /\ ret' = [op |-> "GET /analytics", down |-> q.down, failed |-> q.failed,
               scan |-> q.scan, readOK |-> q.readOK,
               response |-> AnalyticsHandlerResponse(q.resp, Nil)]

\* GET /analytics arrives: GetAnalytics is entered, SCard users:active:5m.
GaStart(p) ==
    /\ IsIdle(p)
    /\ procs[p].n < 1
    /\ \E down \in BOOLEAN :
          LET q0 == [op |-> "analytics", n |-> procs[p].n + 1, pc |-> "scard1h",
                     down |-> down, failsLeft |-> MaxFailures, failed |-> 0,
                     keys |-> << >>, users |-> << >>, scan |-> << >>, readOK |-> << >>,
                     resp |-> AnalyticsResponse(now)]
          IN  \E fails \in FailChoices(q0) :
                 procs' = [procs EXCEPT ![p] =
                             [AfterCmd(q0, fails) EXCEPT !.resp.ActiveUsers5m =
                                 IF fails THEN 0 ELSE Cardinality(active["5m"])]]
    /\ UNCHANGED <<now, storeVars, nextSid, ret, nops, nticks, hist, gauges>>

\* SCard users:active:1h, then SCard sessions:active.
GaSCard(p) ==
    LET q == procs[p]
    IN  /\ q.op = "analytics"
        /\ q.pc \in {"scard1h", "scardSessions"}
        /\ \E fails \in FailChoices(q) :
              procs' = [procs EXCEPT ![p] =
                 IF q.pc = "scard1h"
                 THEN [AfterCmd(q, fails) EXCEPT
                         !.pc = "scardSessions",
                         !.resp.ActiveUsers1h = IF fails THEN 0 ELSE Cardinality(active["1h"])]
                 ELSE [AfterCmd(q, fails) EXCEPT
                         !.pc = "keysUsers",
                         !.resp.ActiveSessions = IF fails THEN 0 ELSE Cardinality(sessionsActive)]]
        /\ UNCHANGED <<now, storeVars, nextSid, ret, nops, nticks, hist, gauges>>

\* getTopUsers: Keys user:*:tokens.  On an error top_users stays unset.
GaKeysUsers(p) ==
    LET q == procs[p]
    IN  /\ q.op = "analytics"
        /\ q.pc = "keysUsers"
        /\ \E fails \in FailChoices(q) :
              IF fails THEN procs' = [procs EXCEPT ![p] = [AfterCmd(q, TRUE) EXCEPT !.pc = "keysModels"]]
              ELSE \E keys \in KeysUserTokens(Store) :
                      procs' = [procs EXCEPT ![p] =
                         [q EXCEPT !.pc = IF keys = << >> THEN "keysModels" ELSE "hgetallUser",
                                   !.keys = keys,
                                   !.scan = [i \in 1..Len(keys) |-> UserOfKey(Store, keys[i])]]]
        /\ UNCHANGED <<now, storeVars, nextSid, ret, nops, nticks, hist, gauges>>

\* Mutant: the session count derived for a user is stored back into the
\* user's hash.
GaHGetAllUserCaching(p) ==
    LET q == procs[p]
        key == Head(q.keys)
    IN  /\ q.op = "analytics"
        /\ q.pc = "hgetallUser"
        /\ \E fails \in FailChoices(q) :
              LET list == IF fails THEN q.users
                          ELSE Append(q.users, UserStats(key, users[UserOfKey(Store, key)]))
                  last == Len(q.keys) = 1
              IN  procs' = [procs EXCEPT ![p] =
                     [AfterCmd(q, fails) EXCEPT
                        !.keys = Tail(q.keys),
                        !.users = list,
                        !.readOK = IF fails THEN @ ELSE Append(@, UserOfKey(Store, key)),
                        !.pc = IF last THEN "keysModels" ELSE "hgetallUser",
                        !.resp.TopUsers = IF last THEN LimitResults(list, TopUsersLimit) ELSE @]]
        /\ SetStore([Store EXCEPT !.users[UserOfKey(Store, key)] =
                        HMSet(@, [total_sessions |-> HGetInt(@, "total_requests")])])
        /\ UNCHANGED <<now, nextSid, ret, nops, nticks, hist, gauges>>

\* getTopUsers: HGetAll of the next key; after the last one the list is cut
\* to the limit.
GaHGetAllUser(p) ==
    LET q == procs[p]
        key == Head(q.keys)
    IN  /\ q.op = "analytics"
        /\ q.pc = "hgetallUser"
        /\ \E fails \in FailChoices(q) :
              LET list == IF fails THEN q.users
                          ELSE Append(q.users, UserStats(key, users[UserOfKey(Store, key)]))
                  last == Len(q.keys) = 1
              IN  procs' = [procs EXCEPT ![p] =
                     [AfterCmd(q, fails) EXCEPT
                        !.keys = Tail(q.keys),
                        !.users = list,
                        !.readOK = IF fails THEN @ ELSE Append(@, UserOfKey(Store, key)),
                        !.pc = IF last THEN "keysModels" ELSE "hgetallUser",
                        !.resp.TopUsers = IF last THEN LimitResults(list, TopUsersLimit) ELSE @]]
        /\ UNCHANGED <<now, storeVars, nextSid, ret, nops, nticks, hist, gauges>>

\* getModelUsage: Keys model:*:usage.
GaKeysModels(p) ==
    LET q == procs[p]
    IN  /\ q.op = "analytics"
        /\ q.pc = "keysModels"
        /\ \E fails \in FailChoices(q) :
              IF fails THEN GaReturn(p, AfterCmd(q, TRUE))
              ELSE \E keys \in KeysModelUsage(Store) :
                      IF keys = << >> THEN GaReturn(p, q)
                      ELSE /\ procs' = [procs EXCEPT ![p] =
                                          [q EXCEPT !.pc = "hgetallModel", !.keys = keys]]
                           /\ ret' = ret
        /\ UNCHANGED <<now, storeVars, nextSid, nops, nticks, hist, gauges>>

\* getModelUsage: HGetAll of the next key; after the last one GetAnalytics
\* returns.
GaHGetAllModel(p) ==
    LET q == procs[p]
        key == Head(q.keys)
    IN  /\ q.op = "analytics"
        /\ q.pc = "hgetallModel"
        /\ \E fails \in FailChoices(q) :
              LET q1 == [AfterCmd(q, fails) EXCEPT
                           !.keys = Tail(q.keys),
                           !.resp.ModelUsage =
                               IF fails THEN @
                               ELSE (SplitField1(key) :> ModelStats(models[ModelOfKey(Store, key)])) @@ @]
              IN  IF Len(q.keys) = 1 THEN GaReturn(p, q1)
                  ELSE procs' = [procs EXCEPT ![p] = q1] /\ ret' = ret
        /\ UNCHANGED <<now, storeVars, nextSid, nops, nticks, hist, gauges>>

InitAnalytics ==
    \E k \in PopulatedCounts :
        LET s == Populated(k)
        IN  /\ now = 0
            /\ requests = s.requests
            /\ requestExp = s.requestExp
            /\ sessions = s.sessions
            /\ sessionExp = s.sessionExp
            /\ users = s.users
            /\ models = s.models
            /\ hourly = s.hourly
            /\ hourlyExp = s.hourlyExp
            /\ sessionsActive = s.sessionsActive
            /\ active = s.active
            /\ activeExp = s.activeExp
            /\ series = s.series
            /\ counters = s.counters
            /\ gauges = NoGauges
            /\ nextSid = 0
            /\ procs = <<Idle(0)>>
            /\ ret = NoRet
            /\ nops = 0
            /\ nticks = 0
            /\ hist = InitHist

NextAnalytics ==
    \/ /\ nops < MaxProcOps
       /\ \E m \in ConcMetrics : CaptureTokenMetrics(m, {})
    \/ GaStart(1)
    \/ GaSCard(1)
    \/ GaKeysUsers(1)
    \/ GaHGetAllUser(1)
    \/ GaKeysModels(1)
    \/ GaHGetAllModel(1)

SpecAnalytics == InitAnalytics /\ [][NextAnalytics]_vars

(***************************************************************************)
(* RedisTimeSeriesService (src/unnamed/part_001): the series of the         *)
(* catalog, AddDataPoint, the queries and their HTTP handlers.  Timestamps  *)
(* are in milliseconds.                                                     *)
(***************************************************************************)
RetentionDayMs == 86400000
RetentionWeekMs == 604800000
MsPerSec == 1000

\* time.Now().UnixMilli()
UnixMilli(t) == (t * MsPerSec) \div TicksPerSec

\* The errors of the store's commands (connection: the command did not reach
\* the store) and the one GetLatestValue makes of an empty reply (format).
TSError ==
    [connection |-> "connection refused",
     keyExists |-> "TSDB: key already exists",
     noKey |-> "TSDB: the key does not exist",
     duplicate |-> "TSDB: Error at upsert, update is not supported when DUPLICATE_POLICY is set to BLOCK mode",
     tooOld |-> "TSDB: Timestamp is older than retention",
     aggregation |-> "TSDB: Unknown aggregation type",
     format |-> "invalid response format"]

Max(S) == CHOOSE x \in S : \A y \in S : y <= x
Min(S) == CHOOSE x \in S : \A y \in S : x <= y

RECURSIVE SortAsc(_)
SortAsc(S) == IF S = {} THEN << >> ELSE <<Min(S)>> \o SortAsc(S \ {Min(S)})

RECURSIVE SumOver(_, _)
SumOver(f, T) ==
    IF T = {} THEN 0 ELSE LET x == CHOOSE y \in T : TRUE IN f[x] + SumOver(f, T \ {x})

\* Mutant: a key that exists is created anew.
TSCreateReplacing(srs, key, retention, labels) ==
    [series |-> [srs EXCEPT ![key] = [exists |-> TRUE, samples |-> << >>,
                                      retention |-> retention, labels |-> labels]],
     err |-> Nil]

\* TS.CREATE key RETENTION r LABELS ...: an error when the key exists.
TSCreate(srs, key, retention, labels) ==
    IF srs[key].exists THEN [series |-> srs, err |-> TSError.keyExists]
    ELSE [series |-> [srs EXCEPT ![key] = [exists |-> TRUE, samples |-> << >>,
                                           retention |-> retention, labels |-> labels]],
          err |-> Nil]

\* initializeTimeSeries: TS.CREATE for every key of the catalog; an error is
\* logged at most.  failed holds the keys at which the connection fails.
RECURSIVE InitializeTimeSeries(_, _, _)
InitializeTimeSeries(srs, keys, failed) ==
    IF keys = {} THEN srs
    ELSE LET key == CHOOSE k \in keys : TRUE
             r == TSCreate(srs, key,
                           IF key \in CatalogWeek THEN RetentionWeekMs ELSE RetentionDayMs,
                           CatalogLabels[key])
         IN  InitializeTimeSeries(IF key \in failed THEN srs ELSE r.series,
                                  keys \ {key}, failed)

\* Mutant: the sample added replaces the samples of the series.
TSAddReplacing(srs, key, ts, value) ==
    [series |-> [srs EXCEPT ![key] =
                    [exists |-> TRUE, samples |-> (ts :> value),
                     retention |-> IF srs[key].exists THEN srs[key].retention ELSE 0,
                     labels |-> IF srs[key].exists THEN srs[key].labels ELSE << >>]],
     err |-> Nil]

\* TS.ADD key timestamp value: the series is created when the key is missing;
\* a sample at a timestamp that holds one already, or older than the
\* retention period counted from the latest sample, is refused; samples that
\* fall out of the retention period are dropped.
TSAdd(srs, key, ts, value) ==
    LET sr == IF srs[key].exists THEN srs[key]
              ELSE [exists |-> TRUE, samples |-> << >>, retention |-> 0, labels |-> << >>]
        stamps == DOMAIN sr.samples
        latest == IF stamps = {} THEN ts ELSE Max(stamps \cup {ts})
        kept == {x \in stamps \cup {ts} : sr.retention = 0 \/ x >= latest - sr.retention}
    IN  IF ts \in stamps THEN [series |-> srs, err |-> TSError.duplicate]
        ELSE IF sr.retention > 0 /\ stamps # {} /\ ts < Max(stamps) - sr.retention
        THEN [series |-> srs, err |-> TSError.tooOld]
        ELSE [series |-> [srs EXCEPT ![key] =
                             [sr EXCEPT !.samples =
                                 [x \in kept |-> IF x = ts THEN value ELSE sr.samples[x]]]],
              err |-> Nil]

Aggregate(agg, samples, T) ==
    CASE agg = "sum" -> SumOver(samples, T)
      [] agg = "count" -> Cardinality(T)
      [] agg = "min" -> Min({samples[x] : x \in T})
      [] agg = "max" -> Max({samples[x] : x \in T})
      [] agg = "avg" -> Ratio(SumOver(samples, T), Cardinality(T))

\* Mutant: the end of the range is not applied.
TSRangeFromStart(srs, key, start, end, agg, bucket) ==
    LET sr == srs[key]
        raw == SortAsc({x \in DOMAIN sr.samples : start <= x})
    IN  IF ~sr.exists THEN [reply |-> << >>, err |-> TSError.noKey]
        ELSE [reply |-> [i \in 1..Len(raw) |-> <<raw[i], sr.samples[raw[i]]>>], err |-> Nil]

\* TS.RANGE key start end [AGGREGATION agg bucket]: the reply, a list of
\* <<timestamp, value>> in ascending order of timestamp.
TSRange(srs, key, start, end, agg, bucket) ==
    LET sr == srs[key]
        inRange == {x \in DOMAIN sr.samples : start <= x /\ x <= end}
        raw == SortAsc(inRange)
        buckets == SortAsc({x - (x % bucket) : x \in inRange})
    IN  IF ~sr.exists THEN [reply |-> << >>, err |-> TSError.noKey]
        ELSE IF agg = "" THEN [reply |-> [i \in 1..Len(raw) |-> <<raw[i], sr.samples[raw[i]]>>],
                               err |-> Nil]
        ELSE IF agg \notin {"avg", "sum", "min", "max", "count"} THEN [reply |-> << >>, err |-> TSError.aggregation]
        ELSE [reply |-> [i \in 1..Len(buckets) |->
                            <<buckets[i],
                              Aggregate(agg, sr.samples,
                                        {x \in inRange : x - (x % bucket) = buckets[i]})>>],
              err |-> Nil]

\* Mutant: the sample with the least timestamp is returned.
TSGetFirst(srs, key) ==
    LET sr == srs[key]
    IN  IF ~sr.exists THEN [reply |-> << >>, err |-> TSError.noKey]
        ELSE IF sr.samples = << >> THEN [reply |-> << >>, err |-> Nil]
        ELSE [reply |-> <<Min(DOMAIN sr.samples), sr.samples[Min(DOMAIN sr.samples)]>>,
              err |-> Nil]

\* TS.GET key: the latest sample, an empty reply for a series without samples.
TSGet(srs, key) ==
    LET sr == srs[key]
    IN  IF ~sr.exists THEN [reply |-> << >>, err |-> TSError.noKey]
        ELSE IF sr.samples = << >> THEN [reply |-> << >>, err |-> Nil]
        ELSE [reply |-> <<Max(DOMAIN sr.samples), sr.samples[Max(DOMAIN sr.samples)]>>,
              err |-> Nil]

DataPoint(item) == [Timestamp |-> item[1], Value |-> item[2]]

\* Mutant: AGGREGATION is never sent.
QueryRangeNeverAggregated(srs, query, fails) ==
    LET r == TSRange(srs, query.Key, query.StartTime, query.EndTime, "", query.BucketDuration)
        err == IF fails THEN TSError.connection ELSE r.err
    IN  IF err # Nil THEN [response |-> Nil, err |-> err]
        ELSE [response |-> [Key |-> query.Key,
                            Data |-> [i \in 1..Len(r.reply) |-> DataPoint(r.reply[i])]],
              err |-> Nil]

\* QueryRange: fails says whether the connection fails on the command.
QueryRange(srs, query, fails) ==
    LET aggregated == query.Aggregation # "" /\ query.BucketDuration > 0
        r == TSRange(srs, query.Key, query.StartTime, query.EndTime,
                     IF aggregated THEN query.Aggregation ELSE "",
                     query.BucketDuration)
        err == IF fails THEN TSError.connection ELSE r.err
    IN  IF err # Nil THEN [response |-> Nil, err |-> err]
        ELSE [response |-> [Key |-> query.Key,
                            Data |-> [i \in 1..Len(r.reply) |-> DataPoint(r.reply[i])]],
              err |-> Nil]

\* Mutant: a query that fails is left out of the result and the batch goes on.
RECURSIVE QueryMultiRangeSkipFailed(_, _, _, _, _)
QueryMultiRangeSkipFailed(srs, queries, i, F, results) ==
    IF i > Len(queries) THEN [results |-> results, err |-> Nil, issued |-> Len(queries)]
    ELSE LET r == QueryRange(srs, queries[i], i \in F)
         IN  QueryMultiRangeSkipFailed(srs, queries, i + 1, F,
                 IF r.err # Nil THEN results ELSE (queries[i].Key :> r.response) @@ results)

\* Mutant: the results of the queries before the failing one are returned
\* with the error.
RECURSIVE QueryMultiRangePartial(_, _, _, _, _)
QueryMultiRangePartial(srs, queries, i, F, results) ==
    IF i > Len(queries) THEN [results |-> results, err |-> Nil, issued |-> Len(queries)]
    ELSE LET r == QueryRange(srs, queries[i], i \in F)
         IN  IF r.err # Nil
             THEN [results |-> results, err |-> <<"failed to query", queries[i].Key, r.err>>,
                   issued |-> i]
             ELSE QueryMultiRangePartial(srs, queries, i + 1, F,
                                         (queries[i].Key :> r.response) @@ results)

\* QueryMultiRange from query i on: F holds the positions at which the
\* connection fails, results the map filled so far.
RECURSIVE QueryMultiRange(_, _, _, _, _)
QueryMultiRange(srs, queries, i, F, results) ==
    IF i > Len(queries) THEN [results |-> results, err |-> Nil, issued |-> Len(queries)]
    ELSE LET r == QueryRange(srs, queries[i], i \in F)
         IN  IF r.err # Nil
             THEN [results |-> Nil, err |-> <<"failed to query", queries[i].Key, r.err>>,
                   issued |-> i]
             ELSE QueryMultiRange(srs, queries, i + 1, F,
                                  (queries[i].Key :> r.response) @@ results)

\* Mutant: an empty reply is read as a point of zeros.
GetLatestValueZeroOnEmpty(srs, key, fails) ==
    LET r == TSGet(srs, key)
        err == IF fails THEN TSError.connection ELSE r.err
    IN  IF err # Nil THEN [dataPoint |-> << >>, err |-> err]
        ELSE IF Len(r.reply) = 2 THEN [dataPoint |-> <<DataPoint(r.reply)>>, err |-> Nil]
        ELSE [dataPoint |-> <<DataPoint(<<0, 0>>)>>, err |-> Nil]

\* GetLatestValue: fails says whether the connection fails on the command.
\* The *DataPoint returned is << >> (nil) or <<the point>>.
GetLatestValue(srs, key, fails) ==
    LET r == TSGet(srs, key)
        err == IF fails THEN TSError.connection ELSE r.err
    IN  IF err # Nil THEN [dataPoint |-> << >>, err |-> err]
        ELSE IF Len(r.reply) = 2 THEN [dataPoint |-> <<DataPoint(r.reply)>>, err |-> Nil]
        ELSE [dataPoint |-> << >>, err |-> TSError.format]

\* Requests of the handlers.  A body is a JSON text that decodes (valid) to
\* the value it carries, or one that does not.
QueryKeys == {"metrics:users:active_5m", "metrics:adhoc"}
TimeSeriesQuery ==
    [Key : QueryKeys, StartTime : {0, 3}, EndTime : {500, 2000},
     Aggregation : {"", "count", "median"}, BucketDuration : {0, 2000}]
QueryBodies ==
    {[valid |-> FALSE,
      value |-> [Key |-> "", StartTime |-> 0, EndTime |-> 0, Aggregation |-> "",
                 BucketDuration |-> 0]]}
        \cup {[valid |-> TRUE, value |-> q] : q \in TimeSeriesQuery}
MultiQueryBodies ==
    LET raw == {q \in TimeSeriesQuery :
                   q.Aggregation = "" /\ q.BucketDuration = 0 /\ q.StartTime = 0}
    IN  {[valid |-> FALSE, value |-> << >>]}
            \cup {[valid |-> TRUE, value |-> qs] :
                     qs \in {<< >>} \cup {<<q>> : q \in raw}
                               \cup {<<q1, q2>> : q1 \in raw, q2 \in raw}}

\* http.Error(w, message, code) / json.NewEncoder(w).Encode(data)
HTTPError(message, code) == [status |-> code, message |-> message, data |-> Nil]
HTTPData(data) == [status |-> 200, message |-> Nil, data |-> data]
HTTPEmpty == [status |-> 200, message |-> Nil, data |-> Nil]

\* What a handler leaves in ret: the request, the answer written, the number
\* of store commands issued and the error of the store command that failed.
Handled(op, r, answer, issued, cmdErr) ==
    ret' = [op |-> op, r |-> r, answer |-> answer, issued |-> issued, cmdErr |-> cmdErr]

AddDataPoint(key, timestamp, value, fails) ==
    LET ts == IF timestamp = 0 THEN UnixMilli(now) ELSE timestamp
        r == TSAdd(series, key, ts, value)
        err == IF fails THEN TSError.connection ELSE r.err
    IN  /\ nops < MaxSamples
        /\ SetStore([Store EXCEPT !.series = IF fails THEN series ELSE r.series])
        /\ ret' = [op |-> "AddDataPoint", key |-> key, arg |-> timestamp, timestamp |-> ts,
                   value |-> value, err |-> err]
        /\ nops' = nops + 1
        /\ UNCHANGED <<now, nextSid, procs, nticks, hist, gauges>>

queryHandler(r, fails) ==
    /\ IF r.method = "OPTIONS" THEN Handled("/query", r, HTTPEmpty, 0, Nil)
       ELSE IF ~r.body.valid
       THEN Handled("/query", r, HTTPError(<<"Invalid request body">>, 400), 0, Nil)
       ELSE LET q == QueryRange(series, r.body.value, fails)
            IN  IF q.err # Nil
                THEN Handled("/query", r, HTTPError(<<"Query failed", q.err>>, 500), 1, q.err)
                ELSE Handled("/query", r, HTTPData(q.response), 1, Nil)
    /\ UNCHANGED <<now, storeVars, nextSid, procs, nops, nticks, hist, gauges>>

multiQueryHandler(r, F) ==
    /\ IF r.method = "OPTIONS" THEN Handled("/multi-query", r, HTTPEmpty, 0, Nil)
       ELSE IF ~r.body.valid
       THEN Handled("/multi-query", r, HTTPError(<<"Invalid request body">>, 400), 0, Nil)
       ELSE LET q == QueryMultiRange(series, r.body.value, 1, F, << >>)
                failedAt == {i \in 1..q.issued :
                                QueryRange(series, r.body.value[i], i \in F).err # Nil}
                cmdErr == IF failedAt = {} THEN Nil
                          ELSE QueryRange(series, r.body.value[Min(failedAt)],
                                          Min(failedAt) \in F).err
            IN  IF q.err # Nil
                THEN Handled("/multi-query", r,
                             HTTPError(<<"Multi-query failed">> \o q.err, 500), q.issued, cmdErr)
                ELSE Handled("/multi-query", r, HTTPData(q.results), q.issued, cmdErr)
    /\ UNCHANGED <<now, storeVars, nextSid, procs, nops, nticks, hist, gauges>>

latestHandler(r, fails) ==
    /\ IF r.key = "" THEN Handled("/latest", r, HTTPError(<<"Missing key parameter">>, 400), 0, Nil)
       ELSE LET q == GetLatestValue(series, r.key, fails)
                cmdErr == IF fails THEN TSError.connection ELSE TSGet(series, r.key).err
            IN  IF q.err # Nil
                THEN Handled("/latest", r,
                             HTTPError(<<"Failed to get latest value", q.err>>, 500), 1, cmdErr)
                ELSE Handled("/latest", r, HTTPData(q.dataPoint[1]), 1, cmdErr)
    /\ UNCHANGED <<now, storeVars, nextSid, procs, nops, nticks, hist, gauges>>

\* The service has been constructed (the catalog exists) one second after
\* the clock's origin; samples are added and the handlers are called.
InitQuery ==
    /\ now = Dur(1)
    /\ requests = EmptyStore.requests
    /\ requestExp = EmptyStore.requestExp
    /\ sessions = EmptyStore.sessions
    /\ sessionExp = EmptyStore.sessionExp
    /\ users = EmptyStore.users
    /\ models = EmptyStore.models
    /\ hourly = EmptyStore.hourly
    /\ hourlyExp = EmptyStore.hourlyExp
    /\ sessionsActive = EmptyStore.sessionsActive
    /\ active = EmptyStore.active
    /\ activeExp = EmptyStore.activeExp
    /\ series = InitializeTimeSeries(EmptyStore.series, CatalogKeys, {})
    /\ counters = EmptyStore.counters
    /\ gauges = NoGauges
    /\ nextSid = 0
    /\ procs = IdleProcs
    /\ ret = NoRet
    /\ nops = 0
    /\ nticks = 0
    /\ hist = InitHist

NextQuery ==
    \/ \E key \in QueryKeys, timestamp \in {0, 2}, value \in {1, 2}, fails \in BOOLEAN :
          AddDataPoint(key, timestamp, value, fails)
    \/ \E method \in {"POST", "OPTIONS"}, body \in QueryBodies, fails \in BOOLEAN :
          queryHandler([method |-> method, body |-> body], fails)
    \/ \E method \in {"POST", "OPTIONS"}, body \in MultiQueryBodies, F \in {{}, {1}, {2}} :
          multiQueryHandler([method |-> method, body |-> body], F)
    \/ \E key \in QueryKeys \cup {"", "metrics:error_rate"}, fails \in BOOLEAN : latestHandler([key |-> key], fails)

SpecQuery == InitQuery /\ [][NextQuery]_vars

(***************************************************************************)
(* The series over time: samples are added, the rollup loop ticks, the      *)
(* service is started again on the same store.                              *)
(***************************************************************************)
RollupPeriodSec == 30

\* GET key followed by .Float64() with the error dropped: 0 when the key does
\* not exist.
GetFloat64(v) == IF v = << >> THEN 0 ELSE v[1]

\* Mutant: the token rates are taken from the totals of the user hashes.
RollupValuesFromUserTotals(s) ==
    [activeUsers5m |-> Cardinality(s.active["5m"]),
     activeUsers1h |-> Cardinality(s.active["1h"]),
     inputTokens |-> SumOver([u \in DOMAIN s.users |->
                                 HGetInt(s.users[u], "total_input_tokens")], DOMAIN s.users),
     outputTokens |-> SumOver([u \in DOMAIN s.users |->
                                  HGetInt(s.users[u], "total_output_tokens")], DOMAIN s.users),
     errorCount |-> GetFloat64(s.counters[<<"errors", "total", "count">>])]

\* The five values UpdateMetricsFromRedis reads from the store.
RollupValues(s) ==
    [activeUsers5m |-> Cardinality(s.active["5m"]),
     activeUsers1h |-> Cardinality(s.active["1h"]),
     inputTokens |-> GetFloat64(s.counters[<<"tokens", "input", "count">>]),
     outputTokens |-> GetFloat64(s.counters[<<"tokens", "output", "count">>]),
     errorCount |-> GetFloat64(s.counters[<<"errors", "total", "count">>])]

\* StartMetricsCollection: the ticker fires and UpdateMetricsFromRedis runs.
\* failed holds the series whose TS.ADD fails; the errors of SCARD, GET and
\* AddDataPoint are dropped.
UpdateMetricsFromRedis(failed) ==
    LET t == now + Dur(RollupPeriodSec)
        s == ExpireKeys(Store, t)
        timestamp == UnixMilli(t)
        Add(srs, key, value) ==
            IF key \in failed THEN srs ELSE TSAdd(srs, key, timestamp, value).series
        v == RollupValues(s)
        s1 == Add(s.series, "metrics:users:active_5m", v.activeUsers5m)
        s2 == Add(s1, "metrics:users:active_1h", v.activeUsers1h)
        s3 == Add(s2, "metrics:tokens:input_rate", v.inputTokens)
        s4 == Add(s3, "metrics:tokens:output_rate", v.outputTokens)
        s5 == Add(s4, "metrics:error_rate", v.errorCount)
    IN  /\ nticks < MaxTicks
        /\ now' = t
        /\ SetStore([s EXCEPT !.series = s5])
        /\ ret' = [op |-> "UpdateMetricsFromRedis", timestamp |-> timestamp,
                   failed |-> failed, err |-> Nil]
        /\ nticks' = nticks + 1
        /\ UNCHANGED <<nextSid, procs, nops, hist, gauges>>

\* The service is started on the store as it is.
NewRedisTimeSeriesService(failed) ==
    /\ SetStore([Store EXCEPT !.series = InitializeTimeSeries(series, CatalogKeys, failed)])
    /\ ret' = [op |-> "NewRedisTimeSeriesService", failed |-> failed]
    /\ UNCHANGED <<now, nextSid, procs, nops, nticks, hist, gauges>>

\* The first start of the service may have failed to create a series.
InitSeries ==
    \E failed \in {{}, {"metrics:error_rate"}} :
        /\ now = Dur(1)
        /\ requests = EmptyStore.requests
        /\ requestExp = EmptyStore.requestExp
        /\ sessions = EmptyStore.sessions
        /\ sessionExp = EmptyStore.sessionExp
        /\ users = EmptyStore.users
        /\ models = EmptyStore.models
        /\ hourly = EmptyStore.hourly
        /\ hourlyExp = EmptyStore.hourlyExp
        /\ sessionsActive = EmptyStore.sessionsActive
        /\ active = EmptyStore.active
        /\ activeExp = EmptyStore.activeExp
        /\ series = InitializeTimeSeries(EmptyStore.series, CatalogKeys, failed)
        /\ counters = EmptyStore.counters
        /\ gauges = NoGauges
        /\ nextSid = 0
        /\ procs = IdleProcs
        /\ ret = [op |-> "NewRedisTimeSeriesService", failed |-> failed]
        /\ nops = 0
        /\ nticks = 0
        /\ hist = InitHist

NextSeries ==
    \/ \E key \in {"metrics:error_rate", "metrics:adhoc"}, timestamp \in {0, 2, 90000000},
          value \in {1, 2}, fails \in BOOLEAN :
          AddDataPoint(key, timestamp, value, fails)
    \/ \E failed \in {{}, {"metrics:error_rate"}, {"metrics:users:active_5m"}} :
          UpdateMetricsFromRedis(failed)
    \/ \E failed \in {{}, {"metrics:error_rate"}} : NewRedisTimeSeriesService(failed)

SpecSeries == InitSeries /\ [][NextSeries]_vars

(***************************************************************************)
(* The two periodic loops while captures go on: the refresh of the gauges   *)
(* (updatePrometheusMetrics, src/token_analytics_service.go) and the rollup *)
(* into the time series.                                                   *)
(***************************************************************************)
ActiveUsersKey(w) == <<"users", "active", w>>
ActiveSessionsKey == <<"sessions", "active">>
ModelUsagePattern == <<"model", "*", "usage">>

\* The four fields read of a model hash, the errors of HGet dropped.
ModelUsageOf(h) ==
    [requests |-> HGetInt(h, "total_requests"),
     input_tokens |-> HGetInt(h, "total_input_tokens"),
     output_tokens |-> HGetInt(h, "total_output_tokens"),
     avg_response_time |-> HGetFloat(h, "avg_response_time")]

\* Mutant: a read that fails sets the gauge to zero.
RefreshGaugesZeroOnError(g, s, F) ==
    [activeUsers |->
        [w \in Windows |->
            IF ActiveUsersKey(w) \in F THEN <<0>> ELSE <<Cardinality(s.active[w])>>],
     activeSessions |->
        IF ActiveSessionsKey \in F THEN 0 ELSE Cardinality(s.sessionsActive),
     modelUsage |->
        [k \in Models |->
            IF ModelUsagePattern \in F \/ s.models[k] = EmptyHash THEN g.modelUsage[k]
            ELSE <<ModelUsageOf(s.models[k])>>],
     errorRate |->
        [e \in ErrorTypes |->
            IF ErrorKey(e) \in F \/ s.counters[ErrorKey(e)] = << >> THEN g.errorRate[e]
            ELSE <<s.counters[ErrorKey(e)][1]>>]]

\* The gauges after one run of updatePrometheusMetrics on the store s, the
\* reads of the keys in F failing: a gauge is set only when its read succeeded.
RefreshGauges(g, s, F) ==
    [activeUsers |->
        [w \in Windows |->
            IF ActiveUsersKey(w) \in F THEN g.activeUsers[w]
            ELSE <<Cardinality(s.active[w])>>],
     activeSessions |->
        IF ActiveSessionsKey \in F THEN g.activeSessions ELSE Cardinality(s.sessionsActive),
     modelUsage |->
        [k \in Models |->
            IF ModelUsagePattern \in F \/ s.models[k] = EmptyHash THEN g.modelUsage[k]
            ELSE <<ModelUsageOf(s.models[k])>>],
     errorRate |->
        [e \in ErrorTypes |->
            IF ErrorKey(e) \in F \/ s.counters[ErrorKey(e)] = << >> THEN g.errorRate[e]
            ELSE <<s.counters[ErrorKey(e)][1]>>]]

\* collectMetricsPeriodically: the ticker fires and updatePrometheusMetrics
\* runs.  The loop never ends, so the action has no budget.
updatePrometheusMetrics(F) ==
    /\ gauges' = RefreshGauges(gauges, Store, F)
    /\ ret' = [op |-> "updatePrometheusMetrics", failed |-> F]
    /\ UNCHANGED <<now, storeVars, nextSid, procs, nops, nticks, hist>>

\* The captures made while the loops run.
LoopMetrics == {m \in TimeMetrics : m.SessionID = 0}

\* The counters are written by no code of the repository: they do not exist,
\* or hold what another writer has put there.
InitCounters ==
    {EmptyStore.counters,
     [k \in CounterKeys |->
        IF k = <<"tokens", "input", "count">> THEN <<2>>
        ELSE IF k = ErrorKey("timeout") THEN <<1>> ELSE << >>]}

InitLoops ==
    \E c0 \in InitCounters :
        /\ now = 0
        /\ requests = EmptyStore.requests
        /\ requestExp = EmptyStore.requestExp
        /\ sessions = EmptyStore.sessions
        /\ sessionExp = EmptyStore.sessionExp
        /\ users = EmptyStore.users
        /\ models = EmptyStore.models
        /\ hourly = EmptyStore.hourly
        /\ hourlyExp = EmptyStore.hourlyExp
        /\ sessionsActive = EmptyStore.sessionsActive
        /\ active = EmptyStore.active
        /\ activeExp = EmptyStore.activeExp
        /\ series = InitializeTimeSeries(EmptyStore.series, CatalogKeys, {})
        /\ counters = c0
        /\ gauges = NoGauges
        /\ nextSid = 0
        /\ procs = IdleProcs
        /\ ret = NoRet
        /\ nops = 0
        /\ nticks = 0
        /\ hist = InitHist

NextLoops ==
    \/ \E m \in LoopMetrics : CaptureTokenMetrics(m, {})
    \/ Tick(Dur(Window5mSec))
    \/ \E failed \in {{}, {"metrics:tokens:input_rate"}} : UpdateMetricsFromRedis(failed)
    \/ \E F \in {{}, {ActiveUsersKey("5m")}, {ActiveSessionsKey}} : updatePrometheusMetrics(F)

\* The refresh loop keeps running and its reads succeed again and again.
SpecLoops == InitLoops /\ [][NextLoops]_vars /\ WF_gauges(updatePrometheusMetrics({}))

(***************************************************************************)
(* ClassifyTask and getModelURLByType (src/unnamed/part_003).  A message is *)
(* the sequence of its characters.                                         *)
(***************************************************************************)
UpperLetters == <<"A", "B", "C", "D", "E", "F", "G", "H", "I", "J", "K", "L", "M", "N", "O", "P", "Q", "R", "S", "T", "U", "V", "W", "X", "Y", "Z">>
LowerLetters == <<"a", "b", "c", "d", "e", "f", "g", "h", "i", "j", "k", "l", "m", "n", "o", "p", "q", "r", "s", "t", "u", "v", "w", "x", "y", "z">>

\* strings.ToLower
ToLower(s) ==
    [i \in 1..Len(s) |->
        IF \E j \in 1..Len(UpperLetters) : UpperLetters[j] = s[i]
        THEN LowerLetters[CHOOSE j \in 1..Len(UpperLetters) : UpperLetters[j] = s[i]]
        ELSE s[i]]

\* strings.Contains
Contains(s, substr) ==
    \E i \in 0..(Len(s) - Len(substr)) : SubSeq(s, i + 1, i + Len(substr)) = substr

\* The keywords of the three cases of the switch, in the order of the cases.
CodeKeywords == {<<"c", "o", "d", "e">>, <<"f", "u", "n", "c", "t", "i", "o", "n">>,
                 <<"d", "e", "b", "u", "g">>, <<"r", "e", "f", "a", "c", "t", "o", "r">>}
AnalysisKeywords == {<<"a", "n", "a", "l", "y", "z", "e">>, <<"r", "e", "s", "e", "a", "r", "c", "h">>,
                     <<"c", "o", "m", "p", "a", "r", "e">>, <<"e", "v", "a", "l", "u", "a", "t", "e">>}
ResearchKeywords == {<<"s", "e", "a", "r", "c", "h">>, <<"f", "i", "n", "d">>, <<"l", "o", "o", "k", "u", "p">>}

\* The model router of the service: the three URLs taken from the environment,
\* or the one default of all three.
ModelRouters ==
    {[ChatModelURL |-> "chat-url", AnalysisModelURL |-> "analysis-url",
      CodeModelURL |-> "code-url"],
     [ChatModelURL |-> "default-url", AnalysisModelURL |-> "default-url",
      CodeModelURL |-> "default-url"]}

getModelURLByType(router, modelType) ==
    CASE modelType = "code" -> router.CodeModelURL
      [] modelType \in {"analysis", "research"} -> router.AnalysisModelURL
      [] OTHER -> router.ChatModelURL

ContainsAny(s, keywords) == \E k \in keywords : Contains(s, k)

\* Mutant: the message is matched as it was typed.
ClassifyTaskCaseSensitive(router, message) ==
    LET classification == [TaskType |-> "", Confidence |-> Ratio(8, 10), ModelURL |-> "",
                           MCPTools |-> << >>]
    IN  CASE ContainsAny(message, CodeKeywords) ->
               [classification EXCEPT !.TaskType = "code",
                                      !.ModelURL = router.CodeModelURL,
                                      !.MCPTools = <<"code_assistant", "document_processor">>]
          [] ContainsAny(message, AnalysisKeywords) ->
               [classification EXCEPT !.TaskType = "analysis",
                                      !.ModelURL = router.AnalysisModelURL,
                                      !.MCPTools = <<"web_research", "document_processor">>]
          [] ContainsAny(message, ResearchKeywords) ->
               [classification EXCEPT !.TaskType = "research",
                                      !.ModelURL = router.AnalysisModelURL,
                                      !.MCPTools = <<"web_research">>]
          [] OTHER ->
               [classification EXCEPT !.TaskType = "chat",
                                      !.ModelURL = router.ChatModelURL]

\* The switch takes the first case whose condition holds.
ClassifyTask(router, message) ==
    LET msg == ToLower(message)
        classification == [TaskType |-> "", Confidence |-> Ratio(8, 10), ModelURL |-> "",
                           MCPTools |-> << >>]
    IN  IF ContainsAny(msg, CodeKeywords)
        THEN [classification EXCEPT !.TaskType = "code",
                                    !.ModelURL = router.CodeModelURL,
                                    !.MCPTools = <<"code_assistant", "document_processor">>]
        ELSE IF ContainsAny(msg, AnalysisKeywords)
        THEN [classification EXCEPT !.TaskType = "analysis",
                                    !.ModelURL = router.AnalysisModelURL,
                                    !.MCPTools = <<"web_research", "document_processor">>]
        ELSE IF ContainsAny(msg, ResearchKeywords)
        THEN [classification EXCEPT !.TaskType = "research",
                                    !.ModelURL = router.AnalysisModelURL,
                                    !.MCPTools = <<"web_research">>]
        ELSE [classification EXCEPT !.TaskType = "chat",
                                    !.ModelURL = router.ChatModelURL]

\* The words the messages are made of, each with the cases whose keywords it
\* holds when the case of the letters is ignored.
Vocabulary ==
    <<[text |-> <<"C", "o", "d", "e">>,
        has |-> {"code"}],
       [text |-> <<"D", "E", "B", "U", "G">>,
        has |-> {"code"}],
       [text |-> <<"R", "e", "f", "a", "c", "t", "o", "r", "i", "n", "g">>,
        has |-> {"code"}],
       [text |-> <<"f", "u", "n", "c", "t", "i", "o", "n", "s">>,
        has |-> {"code"}],
       [text |-> <<"A", "n", "a", "l", "y", "z", "e">>,
        has |-> {"analysis"}],
       [text |-> <<"c", "o", "m", "p", "a", "r", "e">>,
        has |-> {"analysis"}],
       [text |-> <<"E", "V", "A", "L", "U", "A", "T", "E">>,
        has |-> {"analysis"}],
       [text |-> <<"R", "e", "s", "e", "a", "r", "c", "h">>,
        has |-> {"analysis", "research"}],
       [text |-> <<"f", "i", "n", "d">>,
        has |-> {"research"}],
       [text |-> <<"L", "o", "o", "k", "U", "p">>,
        has |-> {"research"}],
       [text |-> <<"s", "e", "a", "r", "c", "h", "i", "n", "g">>,
        has |-> {"research"}],
       [text |-> <<"h", "e", "l", "l", "o">>,
        has |-> {}]>>

\* A message: up to two words, with a blank between them.
MessageOf(ws) ==
    IF Len(ws) = 0 THEN << >>
    ELSE IF Len(ws) = 1 THEN Vocabulary[ws[1]].text
    ELSE Vocabulary[ws[1]].text \o <<" ">> \o Vocabulary[ws[2]].text

WordLists ==
    {<< >>} \cup {<<i>> : i \in 1..Len(Vocabulary)}
            \cup {<<i, j>> : i \in 1..Len(Vocabulary), j \in 1..Len(Vocabulary)}

\* A message arrives at a service with the given router and is classified.
CallClassifyTask(router, ws) ==
    /\ ret' = [op |-> "ClassifyTask", router |-> router, words |-> ws,
               message |-> MessageOf(ws),
               classification |-> ClassifyTask(router, MessageOf(ws))]
    /\ UNCHANGED <<now, storeVars, nextSid, procs, nops, nticks, hist, gauges>>

NextClassify == \E router \in ModelRouters, ws \in WordLists : CallClassifyTask(router, ws)

SpecClassify == Init /\ [][NextClassify]_vars

(***************************************************************************)
(* Properties.                                                             *)
(***************************************************************************)
IsCapture(r) == r.op = "CaptureTokenMetrics"
IsGetOrCreate(r) == r.op = "GetOrCreateSession"

\* C1: with captures made one after the other on a store that works, the user
\* hash holds the sums of the captured input and output token counts, the
\* number of captures, and their quotient as the average tokens per request.
C1_UserTotals ==
    \A u \in Users :
        IF hist.userN[u] = 0 THEN users[u] = EmptyHash
        ELSE /\ users[u]["total_input_tokens"] = hist.userIn[u]
             /\ users[u]["total_output_tokens"] = hist.userOut[u]
             /\ users[u]["total_requests"] = hist.userN[u]
             /\ users[u]["avg_tokens_per_request"] =
                    Ratio(hist.userIn[u] + hist.userOut[u], hist.userN[u])

C1_ThreeCaptures ==
    \E u \in Users :
        /\ hist.userN[u] = 3
        /\ hist.userIn[u] = 2
        /\ hist.userOut[u] = 1
        /\ users[u]["avg_tokens_per_request"] = <<1, 1>>

\* The sessions of sessions:active whose user_id is u.
SessionsOf(u) ==
    {s \in sessionsActive : HExists(sessions[s], "user_id") /\ sessions[s]["user_id"] = u}

\* C4 (as claimed): GetOrCreateSession(user) returns one of the user's sessions
\* when the last request on it was less than 30 minutes ago, and a new id when
\* the last request on every session of the user is more than 30 minutes old.
C4_ReuseWithin30Minutes ==
    [][\A u \in Users :
          (IsGetOrCreate(ret') /\ ret'.user = u /\ nops' = nops + 1) =>
             LET own == SessionsOf(u)
                 recent == {s \in own : now - hist.lastTouch[s] < Dur(SessionTimeoutSec)}
                 old == {s \in own : now - hist.lastTouch[s] > Dur(SessionTimeoutSec)}
             IN  /\ recent # {} => (ret'.sid \in recent /\ ~ret'.created)
                 /\ (own # {} /\ old = own) => (ret'.created /\ ret'.sid \notin own)]_vars

\* C6 (as claimed): every session hash that has received aggregate updates has
\* a user_id, and all captures aggregated into it were made by that user.
C6_SessionHasOneUser ==
    \A s \in SessionIds :
        hist.contributors[s] # {} =>
            /\ HExists(sessions[s], "user_id")
            /\ hist.contributors[s] = {sessions[s]["user_id"]}

\* C7 (as claimed): CaptureTokenMetrics returns nil exactly when no store
\* command it issued failed.
C7_EveryFailureReported ==
    IsCapture(ret) => (ret.err = Nil <=> ret.failed = {})

FatalCmd(stage) == <<stage, IF stage = "hourly" THEN "ZAdd" ELSE "HMSet", "">>

StageKeys(s, stage) ==
    CASE stage = "request" -> <<s.requests, s.requestExp>>
      [] stage = "session" -> <<s.sessions, s.sessionExp>>
      [] stage = "user" -> <<s.users>>
      [] stage = "hourly" -> <<s.hourly, s.hourlyExp>>
      [] stage = "model" -> <<s.models>>
      [] stage = "activity" -> <<s.sessionsActive, s.active, s.activeExp>>

StageOrder == <<"request", "session", "user", "hourly", "model", "activity">>

C9_ActivityAfterSuccess ==
    (IsCapture(ret) /\ ret.err = Nil) =>
        /\ \A w \in Windows :
              /\ ret.user \in active[w]
              /\ activeExp[w] - now = WindowDur(w)
        /\ ret.sid \in sessionsActive

\* C10 (as claimed): every member of users:active:<w> made a capture within
\* the last w.
C10_MembersCapturedWithinWindow ==
    \A w \in Windows : \A u \in active[w] :
        /\ hist.lastCapture[u] >= 0
        /\ now - hist.lastCapture[u] <= WindowDur(w)

\* Captures counted for a user or model key, and the count its hash holds.
CountedRequests(key) == IF key[1] = "user" THEN hist.userN[key[2]] ELSE hist.modelN[key[2]]
StoredRequests(key) ==
    HGetInt(IF key[1] = "user" THEN users[key[2]] ELSE models[key[2]], "total_requests")
AggregateKeys == ({"user"} \X Users) \cup ({"model"} \X Models)

\* C2: a lost update is reachable when captures interleave: once all calls
\* have returned nil, total_requests of a user or model hash is at most the
\* number of captures made for it, it is that number unless two captures
\* overlapped in the read-modify-write of that hash, and (witness) it can be
\* smaller.
C2_LostUpdateOnlyByOverlap ==
    (\A p \in DOMAIN procs : IsIdle(p)) =>
        \A key \in AggregateKeys :
            /\ StoredRequests(key) <= CountedRequests(key)
            /\ key \notin hist.raced => StoredRequests(key) = CountedRequests(key)

C2_LostUpdate ==
    /\ DOMAIN procs # {}
    /\ \A p \in DOMAIN procs : IsIdle(p)
    /\ \E u \in Users :
          /\ hist.userN[u] = 2
          /\ StoredRequests(<<"user", u>>) = 1
          /\ <<"user", u>> \in hist.raced

\* The additive fields of the user and model hashes.
CounterFields == {"total_requests", "total_input_tokens", "total_output_tokens"}

\* C3 (as claimed): no step of any execution, interleaved captures included,
\* lowers total_requests, total_input_tokens or total_output_tokens of a user
\* hash or of a model hash.
C3_CountersNeverDecrease ==
    [][\A f \in CounterFields :
          /\ \A u \in Users : HGetInt(users'[u], f) >= HGetInt(users[u], f)
          /\ \A k \in Models : HGetInt(models'[k], f) >= HGetInt(models[k], f)]_vars

\* C5: two concurrent GetOrCreateSession calls for one user can both create a
\* session: two sessions created for the same user are never such that the
\* scan of one call had the other session in its SMembers reply (each was
\* created by a scan that ran before the other was added), and (witness) two
\* distinct fresh sessions of one user do end up in sessions:active.
C5_DuplicatesOnlyFromOverlappingScans ==
    \A a \in hist.created : \A b \in hist.created \ {a} :
        sessions[a]["user_id"] = sessions[b]["user_id"] => a \notin hist.snapshot[b]

C5_DuplicateSessions ==
    /\ DOMAIN procs # {}
    /\ \A p \in DOMAIN procs : IsIdle(p)
    /\ \E a \in sessionsActive : \E b \in sessionsActive \ {a} :
          /\ IsActiveSessionOf(sessions[a], "u1", now)
          /\ IsActiveSessionOf(sessions[b], "u1", now)
          /\ hist.snapshot[a] = {}
          /\ hist.snapshot[b] = {}

\* C11 (as claimed): a request hash, once written, keeps every field and its
\* expiry time whatever is called later (a capture carrying the same request
\* id included), until the key expires 7 days after it was created.
C11_RequestImmutable ==
    [][\A r \in ReqIds :
          requests[r] # EmptyHash =>
             \/ requests'[r] = requests[r] /\ requestExp'[r] = requestExp[r]
             \/ requests'[r] = EmptyHash /\ now' >= requestExp[r]]_vars

\* C12 (as claimed): every session hash in the store has a TTL, of at most 30
\* days, whichever call created it.
C12_SessionHasTTL ==
    \A i \in SessionIds :
        sessions[i] # EmptyHash =>
            /\ sessionExp[i] # NoTTL
            /\ sessionExp[i] - now <= Dur(SessionTTLSec)

\* C13 (as claimed): every successful capture adds one marker to the user's
\* bucket of the hour, scored with the minute of the capture, so the bucket
\* holds as many markers as captures were made for the user in that hour, and
\* the bucket has a TTL of 90 days.
C13_OneMarkerPerCapture ==
    \A u \in Users :
        LET bucket == hourly[<<u, HourOf(now)>>]
        IN  /\ Cardinality(DOMAIN bucket) = hist.userN[u]
            /\ \A mk \in DOMAIN bucket : bucket[mk] = MinuteOf(now)
            /\ bucket # EmptyHash => hourlyExp[<<u, HourOf(now)>>] - now = Dur(HourlyTTLSec)

\* C14 (as claimed): a session hash comes to exist only by the create branch
\* of GetOrCreateSession, once per session id: no step makes a hash exist for
\* an id whose hash was created before and has expired.
C14_SessionLifecycle ==
    [][\A i \in SessionIds :
          (sessions[i] = EmptyHash /\ sessions'[i] # EmptyHash) =>
             /\ i \notin hist.created
             /\ IsGetOrCreate(ret') /\ ret'.created /\ ret'.sid = i]_vars

\* The sessions of u in sessions:active whose last_activity is more than 30
\* minutes old and whose key has not expired.
StaleSessionsOf(u) ==
    {s \in SessionsOf(u) :
        now - ParseRFC3339(sessions[s]["last_activity"]) > Dur(SessionTimeoutSec)}

\* C15 (as claimed): a stale session whose key has not expired is still
\* matched: GetOrCreateSession for a user whose only session is stale returns
\* that session's id.
C15_StaleSessionMatched ==
    [][\A u \in Users :
          (IsGetOrCreate(ret') /\ ret'.user = u /\ nops' = nops + 1) =>
             LET own == SessionsOf(u)
             IN  (Cardinality(own) = 1 /\ StaleSessionsOf(u) = own) => ret'.sid \in own]_vars

\* C15 (amended): a stale session is never matched, although its key has not
\* expired and its id is still in sessions:active: GetOrCreateSession returns
\* a session of the user that is not stale, or creates a new one.
C15_StaleSessionNeverMatched ==
    [][\A u \in Users :
          (IsGetOrCreate(ret') /\ ret'.user = u /\ nops' = nops + 1) =>
             /\ ret'.sid \notin StaleSessionsOf(u)
             /\ ret'.created <=> ret'.sid \notin SessionsOf(u)
             /\ SessionsOf(u) \subseteq SessionsOf(u)']_vars

C15_StaleSessionSkipped ==
    /\ IsGetOrCreate(ret)
    /\ ret.created
    /\ \E s \in StaleSessionsOf(ret.user) : s # ret.sid /\ sessionExp[s] > now

\* C16: ExtractUserID returns the X-User-ID header when it is not empty;
\* else the user_id query parameter when it is not empty; else the value of
\* the user_session cookie when there is one; else "user_" followed by the
\* client address (X-Forwarded-For, else the remote address) with ":" replaced.
C16_IdentityPriority ==
    ret.op = "ExtractUserID" =>
        LET r == ret.r
            header == IF r.XUserID = << >> THEN << >> ELSE r.XUserID[1]
            query == IF r.user_id = << >> THEN << >> ELSE r.user_id[1]
            hasCookie == Len(r.user_session) > 0
            forwarded == IF r.XForwardedFor = << >> THEN << >> ELSE r.XForwardedFor[1]
            ip == IF Len(forwarded) > 0 THEN forwarded ELSE r.RemoteAddr
        IN  /\ Len(header) > 0 => ret.userID = header
            /\ (Len(header) = 0 /\ Len(query) > 0) => ret.userID = query
            /\ (Len(header) = 0 /\ Len(query) = 0 /\ hasCookie) =>
                   ret.userID = r.user_session[1]
            /\ (Len(header) = 0 /\ Len(query) = 0 /\ ~hasCookie) =>
                   /\ Len(ret.userID) = Len(ip) + 1
                   /\ ret.userID[1] = "user_"
                   /\ \A i \in 1..Len(ip) :
                         ret.userID[i + 1] = (IF ip[i] = ":" THEN "_" ELSE ip[i])

C16_QueryUsedWhenHeaderEmpty ==
    /\ ret.op = "ExtractUserID"
    /\ ret.r.XUserID = << << >> >>
    /\ ret.r.user_id = << <<"bob">> >>
    /\ ret.r.user_session = << <<"carol">> >>
    /\ ret.userID = <<"bob">>

\* C17: no store command of GetAnalytics changes a key or a TTL: every step of
\* the call, wherever it falls between the captures going on, leaves the
\* store as it was.
C17_GetAnalyticsReadOnly ==
    [][procs' # procs => storeVars' = storeVars]_vars

C17_CaptureDuringAnalytics ==
    /\ ret.op = "GET /analytics"
    /\ ret.failed = 0
    /\ Len(ret.response.body.TopUsers) = TopUsersLimit
    /\ users["u1"] # EmptyHash
    /\ \A i \in 1..Len(ret.scan) : ret.scan[i] # "u1"

\* C18 (as claimed): top_users holds at most 10 entries, one for each of the
\* first min(10, n) user keys read successfully, in the order of the scan, and
\* each entry's user_id is the id of the user whose hash was read for it.
C18_TopUsersFirstRead ==
    ret.op = "GET /analytics" =>
        LET top == ret.response.body.TopUsers
            n == Len(ret.readOK)
        IN  /\ Len(top) <= TopUsersLimit
            /\ Len(top) = (IF n < TopUsersLimit THEN n ELSE TopUsersLimit)
            /\ ret.readOK = SelectSeq(ret.scan,
                                      LAMBDA u : \E i \in 1..n : ret.readOK[i] = u)
            /\ \A i \in 1..Len(top) : top[i].UserID = ret.readOK[i]

\* C19 (as claimed): when the store is unreachable and every read of
\* GetAnalytics fails, GetAnalytics returns an error and GET /analytics is
\* answered with an error status.
C19_StoreDownIsAnError ==
    (ret.op = "GET /analytics" /\ ret.down) =>
        /\ ret.response.err # Nil
        /\ ret.response.status = 500


\* C20: when the store command behind POST /query, POST /multi-query or
\* GET /latest fails, the answer is a 500 that carries the underlying message
\* and holds no data; a body that cannot be decoded, or a missing key on
\* /latest, is answered with a 400 and no store command is issued.
C20_QueryFailuresSurfaced ==
    ret.op \in {"/query", "/multi-query", "/latest"} =>
        /\ ret.cmdErr # Nil =>
              /\ ret.answer.status = 500
              /\ ret.answer.data = Nil
              /\ ret.answer.message[Len(ret.answer.message)] = ret.cmdErr
        /\ \/ ret.op = "/latest" /\ ret.r.key = ""
           \/ ret.op # "/latest" /\ ret.r.method = "POST" /\ ~ret.r.body.valid
           => ret.answer.status = 400 /\ ret.issued = 0

\* A multi-query whose second query failed after the first had succeeded.
C20_SecondQueryFailed ==
    /\ ret.op = "/multi-query"
    /\ ret.issued = 2
    /\ ret.cmdErr # Nil
    /\ ret.answer.status = 500


\* The call of QueryRange behind the last POST /query sent no AGGREGATION.
QueriedRaw ==
    /\ ret.op = "/query"
    /\ ret.r.method = "POST"
    /\ ret.r.body.valid
    /\ ret.answer.status = 200
    /\ ~(ret.r.body.value.Aggregation # "" /\ ret.r.body.value.BucketDuration > 0)

\* C21: a successful QueryRange without aggregation returns only points with
\* StartTime <= timestamp <= EndTime, in strictly ascending order of timestamp.
C21_RangeBoundedAscending ==
    QueriedRaw =>
        LET Data == ret.answer.data.Data
            q == ret.r.body.value
        IN  /\ \A i \in 1..Len(Data) :
                  q.StartTime <= Data[i].Timestamp /\ Data[i].Timestamp <= q.EndTime
            /\ \A i \in 1..Len(Data), j \in 1..Len(Data) :
                  i < j => Data[i].Timestamp < Data[j].Timestamp

\* A raw query that returned one sample of a series and left another out.
C21_RangeCutsSeries ==
    /\ QueriedRaw
    /\ Len(ret.answer.data.Data) = 1
    /\ Cardinality(DOMAIN series[ret.r.body.value.Key].samples) = 2


\* The points with timestamp ts that QueryRange returns for the range a..b of
\* key, without aggregation, on the series srs.
PointsAt(srs, key, a, b, ts) ==
    LET Data == QueryRange(srs, [Key |-> key, StartTime |-> a, EndTime |-> b,
                                 Aggregation |-> "", BucketDuration |-> 0],
                           FALSE).response.Data
    IN  {i \in 1..Len(Data) : Data[i].Timestamp = ts}

\* Every range that contains ts (from 0 or ts, to ts or beyond every sample)
\* returns the sample at ts once, with value v.
ReturnedOnce(srs, key, ts, v) ==
    /\ srs[key].exists
    /\ \A a \in {0, ts}, b \in {ts, 90000000 + 1} :
          LET Data == QueryRange(srs, [Key |-> key, StartTime |-> a, EndTime |-> b,
                                       Aggregation |-> "", BucketDuration |-> 0],
                                 FALSE).response.Data
          IN  /\ Cardinality(PointsAt(srs, key, a, b, ts)) = 1
              /\ \A i \in PointsAt(srs, key, a, b, ts) : Data[i].Value = v

\* The sample at ts falls out of the retention period of the series sr.
PrunedFrom(sr, ts) ==
    sr.retention > 0 /\ sr.samples # << >> /\ ts < Max(DOMAIN sr.samples) - sr.retention

\* C22: a sample that AddDataPoint stored is returned exactly once, with its
\* value, by every QueryRange without aggregation whose bounds contain its
\* timestamp, from the step that stored it on and until retention prunes it;
\* on an empty series one AddDataPoint gives a covering query one point.
C22_RoundTrip ==
    [][/\ ret'.op = "AddDataPoint" /\ ret'.err = Nil =>
             /\ ReturnedOnce(series', ret'.key, ret'.timestamp, ret'.value)
             /\ series[ret'.key].samples = << >> =>
                   Len(QueryRange(series', [Key |-> ret'.key, StartTime |-> 0,
                                            EndTime |-> ret'.timestamp + MsPerSec,
                                            Aggregation |-> "", BucketDuration |-> 0],
                                  FALSE).response.Data) = 1
       /\ \A key \in SeriesKeys : \A ts \in DOMAIN series[key].samples :
             ~PrunedFrom(series'[key], ts) =>
                 ReturnedOnce(series', key, ts, series[key].samples[ts])]_vars

\* A second sample has been stored in a series.
C22_SecondSampleStored ==
    /\ ret.op = "AddDataPoint"
    /\ ret.err = Nil
    /\ Cardinality(DOMAIN series[ret.key].samples) = 2


\* The last call was AddDataPoint(key, 0, v) and it returned nil.
AddedAtNow == ret.op = "AddDataPoint" /\ ret.arg = 0 /\ ret.err = Nil

\* C23 as stated: after AddDataPoint(key, 0, v) the sample is stored at the
\* current time and GetLatestValue(key) returns v with that timestamp,
\* whatever the series held before.
C23_ZeroStampIsLatest ==
    AddedAtNow =>
        /\ ret.timestamp = UnixMilli(now)
        /\ 0 \notin DOMAIN series[ret.key].samples
        /\ GetLatestValue(series, ret.key, FALSE) =
               [dataPoint |-> <<[Timestamp |-> UnixMilli(now), Value |-> ret.value]>>,
                err |-> Nil]

\* C23 amended: after AddDataPoint(key, 0, v) the sample is stored at the
\* current time, not at 0, and GetLatestValue(key) returns the sample with the
\* greatest timestamp of the series: v at the current time when the series
\* holds no sample later than now.
C23_ZeroStampLatestUnlessLater ==
    AddedAtNow =>
        LET samples == series[ret.key].samples
            latest == GetLatestValue(series, ret.key, FALSE)
        IN  /\ ret.timestamp = UnixMilli(now)
            /\ 0 \notin DOMAIN samples
            /\ samples[UnixMilli(now)] = ret.value
            /\ latest.err = Nil
            /\ \A x \in DOMAIN samples : x <= latest.dataPoint[1].Timestamp
            /\ latest.dataPoint[1].Value = samples[latest.dataPoint[1].Timestamp]
            /\ (\A x \in DOMAIN samples : x <= UnixMilli(now)) =>
                   latest.dataPoint[1] = [Timestamp |-> UnixMilli(now), Value |-> ret.value]

\* AddDataPoint(key, 0, v) on a series that held an earlier sample.
C23_AddedAfterEarlierSample ==
    /\ AddedAtNow
    /\ \E x \in DOMAIN series[ret.key].samples : x < UnixMilli(now)
    /\ \A x \in DOMAIN series[ret.key].samples : x <= UnixMilli(now)


\* C24: a series that exists keeps the retention and the labels it was
\* created with through every step (initialization run again, AddDataPoint,
\* rollup), and running initializeTimeSeries again leaves an existing series
\* as it is, samples included.
C24_CreationIdempotent ==
    [][\A key \in SeriesKeys :
          series[key].exists =>
              /\ series'[key].exists
              /\ series'[key].retention = series[key].retention
              /\ series'[key].labels = series[key].labels
              /\ ret'.op = "NewRedisTimeSeriesService" => series'[key] = series[key]]_vars

\* The service was started again on a store in which metrics:error_rate, not
\* created by the first start, was created by a sample and holds it.
C24_RestartedOnSamples ==
    /\ ret.op = "NewRedisTimeSeriesService"
    /\ series["metrics:error_rate"].exists
    /\ series["metrics:error_rate"].retention = 0
    /\ series["metrics:error_rate"].samples # << >>


\* C25: QueryMultiRange runs its queries in list order; at the first query
\* that fails it stops, issues no command for the queries after it and
\* returns a nil result with an error naming that query's key; when no query
\* fails it returns the response of every query under its key.
C25_BatchStopsAtFirstFailure ==
    \A body \in MultiQueryBodies, F \in {{}, {1}, {2}} :
        body.valid =>
            LET queries == body.value
                q == QueryMultiRange(series, queries, 1, F, << >>)
                Single(i) == QueryRange(series, queries[i], i \in F)
                failing == {i \in 1..Len(queries) : Single(i).err # Nil}
            IN  IF failing = {}
                THEN /\ q.err = Nil
                     /\ q.issued = Len(queries)
                     /\ DOMAIN q.results = {queries[i].Key : i \in 1..Len(queries)}
                     /\ \A i \in 1..Len(queries) :
                           (\A j \in (i + 1)..Len(queries) : queries[j].Key # queries[i].Key)
                               => q.results[queries[i].Key] = Single(i).response
                ELSE /\ q.results = Nil
                     /\ q.issued = Min(failing)
                     /\ q.err = <<"failed to query", queries[Min(failing)].Key,
                                  Single(Min(failing)).err>>

\* A batch of two queries was sent and stopped at its first query.
C25_StoppedAtFirstQuery ==
    /\ ret.op = "/multi-query"
    /\ ret.r.method = "POST"
    /\ Len(ret.r.body.value) = 2
    /\ ret.issued = 1
    /\ ret.answer.message[3] = ret.r.body.value[1].Key


\* C26: every rollup tick appends exactly one sample, at the tick's
\* timestamp, to each of the five series the loop feeds, and none to the
\* four other series of the catalog.
C26_TickFeedsFiveSeries ==
    [][ret'.op = "UpdateMetricsFromRedis" /\ nticks' = nticks + 1 =>
          /\ \A key \in {"metrics:users:active_5m", "metrics:users:active_1h",
                         "metrics:tokens:input_rate", "metrics:tokens:output_rate",
                         "metrics:error_rate"} :
                /\ ret'.timestamp \notin DOMAIN series[key].samples
                /\ DOMAIN series'[key].samples \ DOMAIN series[key].samples = {ret'.timestamp}
          /\ \A key \in {"metrics:response_time:p95", "metrics:response_time:p99",
                         "metrics:memory:redis_used", "metrics:cpu:usage"} :
                series'[key] = series[key]]_vars


\* The sample of the series sr with the greatest timestamp.
LatestOf(sr) ==
    [Timestamp |-> Max(DOMAIN sr.samples), Value |-> sr.samples[Max(DOMAIN sr.samples)]]

\* C27 as stated: GetLatestValue returns a data point or an error, never
\* both and never neither: the sample with the greatest timestamp on a
\* series that holds a sample, an error and no data point on a missing or an
\* empty series.
C27_LatestOrError ==
    \A key \in SeriesKeys, fails \in BOOLEAN :
        LET r == GetLatestValue(series, key, fails)
        IN  /\ (r.dataPoint = << >>) # (r.err = Nil)
            /\ series[key].samples # << >> => r.dataPoint = <<LatestOf(series[key])>>
            /\ series[key].samples = << >> => r.err # Nil /\ r.dataPoint = << >>

\* C27 amended: the same when the command reaches the store; when the command
\* itself fails GetLatestValue returns that error and no data point, whatever
\* the series holds.
C27_LatestOrErrorUnlessCommandFails ==
    \A key \in SeriesKeys, fails \in BOOLEAN :
        LET r == GetLatestValue(series, key, fails)
        IN  /\ (r.dataPoint = << >>) # (r.err = Nil)
            /\ fails => r.err = TSError.connection /\ r.dataPoint = << >>
            /\ ~fails /\ series[key].samples # << >> => r.dataPoint = <<LatestOf(series[key])>>
            /\ series[key].samples = << >> => r.err # Nil /\ r.dataPoint = << >>

\* GET /latest was answered with the later of the two samples of a series.
C27_LatestOfTwo ==
    /\ ret.op = "/latest"
    /\ ret.answer.status = 200
    /\ Cardinality(DOMAIN series[ret.r.key].samples) = 2
    /\ ret.answer.data = LatestOf(series[ret.r.key])


\* C28: when a capture that carried the id of a session created by
\* GetOrCreateSession has returned nil, the session hash holds the number of
\* the captures made with that id as request_count, the sums of their token
\* counts, the mean of their response times and the time of this capture as
\* last_activity.
C28_SessionTotals ==
    \A i \in hist.created :
        (IsCapture(ret) /\ ret.err = Nil /\ ret.sid = i) =>
            /\ sessions[i]["request_count"] = hist.sessN[i]
            /\ sessions[i]["total_input_tokens"] = hist.sessIn[i]
            /\ sessions[i]["total_output_tokens"] = hist.sessOut[i]
            /\ sessions[i]["avg_response_time"] = Ratio(hist.sessRt[i], hist.sessN[i])
            /\ sessions[i]["last_activity"] = FormatRFC3339(now)


\* C29: with captures made one after the other on a store that works, after
\* every step the hash of each model holds the number of the captures that
\* named the model and the sums of their input and output token counts, over
\* all users and sessions (no hash when no capture named it), and a capture
\* that names another model leaves the hash as it was.
C29_ModelTotals ==
    [][\A k \in Models :
          /\ IF hist'.modelN[k] = 0 THEN models'[k] = EmptyHash
             ELSE /\ models'[k]["total_requests"] = hist'.modelN[k]
                  /\ models'[k]["total_input_tokens"] = hist'.modelIn[k]
                  /\ models'[k]["total_output_tokens"] = hist'.modelOut[k]
          /\ (IsCapture(ret') /\ nops' = nops + 1 /\ ret'.m.ModelUsed # k) =>
                 models'[k] = models[k]]_vars

\* Both users have captured, twice with model m1 and once with m2.
C29_TwoModelsTwoUsers ==
    /\ hist.modelN["m1"] = 2
    /\ hist.modelN["m2"] = 1
    /\ hist.userN["u1"] > 0
    /\ hist.userN["u2"] > 0
    /\ models["m1"]["total_input_tokens"] = 2
    /\ models["m2"]["total_requests"] = 1


\* C30: the first capture of a user sets first_seen to its time; no later
\* step changes the first_seen of a user hash; a capture that returns nil
\* leaves last_seen at its own time, which is not earlier than first_seen.
C30_FirstSeenFixed ==
    [][\A u \in Users :
          /\ users[u] # EmptyHash => users'[u]["first_seen"] = users[u]["first_seen"]
          /\ (IsCapture(ret') /\ ret'.err = Nil /\ nops' = nops + 1 /\ ret'.user = u) =>
                /\ users[u] = EmptyHash => users'[u]["first_seen"] = FormatRFC3339(now')
                /\ users'[u]["last_seen"] = FormatRFC3339(now')
                /\ users'[u]["last_seen"] >= users'[u]["first_seen"]]_vars


\* The samples of the series of query q within its range, in ascending order.
RawSamples(q) ==
    LET sr == series[q.Key]
        stamps == SortAsc({x \in DOMAIN sr.samples : q.StartTime <= x /\ x <= q.EndTime})
    IN  [i \in 1..Len(stamps) |-> [Timestamp |-> stamps[i], Value |-> sr.samples[stamps[i]]]]

RECURSIVE SumValues(_)
SumValues(Data) == IF Data = << >> THEN 0 ELSE Head(Data).Value + SumValues(Tail(Data))

\* C31: POST /query on a series that exists, the command reaching the store.
\* With an aggregation name and a bucket duration above 0 the answer holds one
\* point per bucket (for count: values that sum to the number of samples in
\* the range; an unknown name is an error of the store); with only one of the
\* two, or none, the answer is the samples themselves and no error.
C31_AggregationNeedsNameAndBucket ==
    (/\ ret.op = "/query" /\ ret.r.method = "POST" /\ ret.r.body.valid
     /\ series[ret.r.body.value.Key].exists
     /\ ret.cmdErr # TSError.connection) =>
        LET q == ret.r.body.value
        IN  IF q.Aggregation # "" /\ q.BucketDuration > 0
            THEN IF q.Aggregation = "count"
                 THEN /\ ret.answer.status = 200
                      /\ \A i \in 1..Len(ret.answer.data.Data) :
                            ret.answer.data.Data[i].Timestamp % q.BucketDuration = 0
                      /\ SumValues(ret.answer.data.Data) = Len(RawSamples(q))
                 ELSE ret.answer.status = 500 /\ ret.cmdErr = TSError.aggregation
            ELSE /\ ret.answer.status = 200
                 /\ ret.answer.data.Data = RawSamples(q)

\* A count over one bucket that holds two samples.
C31_CountOfTwoInOneBucket ==
    /\ ret.op = "/query"
    /\ ret.r.method = "POST"
    /\ ret.r.body.valid
    /\ ret.answer.status = 200
    /\ ret.r.body.value.Aggregation = "count"
    /\ ret.r.body.value.BucketDuration > 0
    /\ Len(RawSamples(ret.r.body.value)) = 2
    /\ ret.answer.data.Data = <<[Timestamp |-> 0, Value |-> 2]>>


\* C39: a multi-query that succeeds answers with a map that has as many
\* entries as the batch has queries, also when two queries name the same key.
C39_OneEntryPerQuery ==
    (/\ ret.op = "/multi-query" /\ ret.r.method = "POST" /\ ret.r.body.valid
     /\ ret.answer.status = 200) =>
        Cardinality(DOMAIN ret.answer.data) = Len(ret.r.body.value)


\* C34: the active-session count counts only live sessions: every id in
\* sessions:active names a session whose hash exists and whose last_activity
\* is less than 30 minutes old.
C34_ActiveSessionsAreLive ==
    \A sid \in sessionsActive :
        /\ sessions[sid] # EmptyHash
        /\ HExists(sessions[sid], "last_activity")
        /\ IsFresh(sessions[sid]["last_activity"], now)


\* The sessions of u in sessions:active whose last_activity is less than 30
\* minutes old.
FreshSessionsOf(u) ==
    {s \in SessionsOf(u) :
        /\ HExists(sessions[s], "last_activity")
        /\ IsFresh(sessions[s]["last_activity"], now)}

\* C35: with calls executed one at a time, at every moment each user has at
\* most one session in sessions:active that is the user's and whose
\* last_activity is less than 30 minutes old, also after a capture that
\* carried the id of an older, stale session of the user.
C35_OneFreshSessionPerUser ==
    \A u \in Users : Cardinality(FreshSessionsOf(u)) <= 1


\* The additive fields of the session hash.
SessionCounterFields == {"total_input_tokens", "total_output_tokens", "request_count"}

\* No counter of a session, user or model hash is lower in s2 than in s1.
TotalsKept(s1, s2) ==
    /\ \A f \in SessionCounterFields, i \in SessionIds :
          HGetInt(s2.sessions[i], f) >= HGetInt(s1.sessions[i], f)
    /\ \A f \in CounterFields :
          /\ \A u \in Users : HGetInt(s2.users[u], f) >= HGetInt(s1.users[u], f)
          /\ \A k \in Models : HGetInt(s2.models[k], f) >= HGetInt(s1.models[k], f)

\* C36: a capture during which the read of a current total fails never
\* overwrites a stored total with a smaller value: after it, either it
\* returned an error and the totals are as before, or no total is lower than
\* before.
C36_FailedReadKeepsTotals ==
    [][(/\ IsCapture(ret') /\ nops' = nops + 1
        /\ \E c \in ret'.failed : c[2] = "HGet" /\ c[3] # "first_seen") =>
          \/ /\ ret'.err # Nil
             /\ sessions' = sessions /\ users' = users /\ models' = models
          \/ TotalsKept(Store, Store')]_vars


\* C37: with captures made one after the other and store reads that succeed,
\* between captures the total_requests of all user hashes together are at
\* least the total_requests of all model hashes together, and when no capture
\* returned an error both are the number of captures made.
C37_UserRequestsCoverModelRequests ==
    LET userSum == SumOver([u \in Users |-> HGetInt(users[u], "total_requests")], Users)
        modelSum == SumOver([k \in Models |-> HGetInt(models[k], "total_requests")], Models)
        succeeded == SumOver(hist.userN, Users)
    IN  ~hist.readFailed =>
            /\ userSum >= modelSum
            /\ succeeded = hist.captures => userSum = modelSum /\ userSum = hist.captures

\* A capture failed between the user stage and the model stage: the users have
\* one request more than the models.
C37_UserAheadOfModel ==
    /\ ~hist.readFailed
    /\ IsCapture(ret) /\ ret.err = StageError("model")
    /\ hist.captures = 2
    /\ SumOver([u \in Users |-> HGetInt(users[u], "total_requests")], Users) = 2
    /\ SumOver([k \in Models |-> HGetInt(models[k], "total_requests")], Models) = 1


\* C38: whenever no capture is in the middle of its activity stage, the
\* activity windows are nested: the members of users:active:5m are members of
\* users:active:15m, those of users:active:1h, and those of users:active:24h.
C38_WindowsNested ==
    (\A p \in DOMAIN procs : IsIdle(p)) =>
        /\ active["5m"] \subseteq active["15m"]
        /\ active["15m"] \subseteq active["1h"]
        /\ active["1h"] \subseteq active["24h"]


\* The cases of which some word of the classified message holds a keyword.
CasesOf(ws) == UNION {Vocabulary[ws[i]].has : i \in 1..Len(ws)}

\* C33: ClassifyTask takes the first case that matches, in the order code,
\* analysis, research, chat, whatever the case of the letters: a message with
\* a code keyword is "code" also when it holds analysis or research keywords,
\* an analysis keyword wins over research keywords, a message without keyword
\* is "chat", and the model URL is the one getModelURLByType gives for the
\* task type.
C33_FirstMatchWins ==
    ret.op = "ClassifyTask" =>
        LET has == CasesOf(ret.words)
            c == ret.classification
        IN  /\ c.TaskType = IF "code" \in has THEN "code"
                            ELSE IF "analysis" \in has THEN "analysis"
                            ELSE IF "research" \in has THEN "research"
                            ELSE "chat"
            /\ c.ModelURL = getModelURLByType(ret.router, c.TaskType)

\* "LookUp Code" is sent to the code model.
C33_CodeOverResearch ==
    /\ ret.op = "ClassifyTask"
    /\ CasesOf(ret.words) = {"code", "research"}
    /\ ret.message # ToLower(ret.message)
    /\ ret.classification.TaskType = "code"
    /\ ret.classification.ModelURL = "code-url"


\* The keys whose cardinality a gauge exports, the value the gauge shows and
\* the cardinality the store holds.
GaugedKeys == {ActiveUsersKey(w) : w \in Windows} \cup {ActiveSessionsKey}
GaugeOf(key) ==
    IF key = ActiveSessionsKey THEN <<gauges.activeSessions>> ELSE gauges.activeUsers[key[3]]
HeldBy(key) ==
    IF key = ActiveSessionsKey THEN Cardinality(sessionsActive)
    ELSE Cardinality(active[key[3]])

\* C32: with the refresh loop running under weak fairness and its reads
\* succeeding, when the cardinality of users:active:<w> or of sessions:active
\* stays the same from some point on, the gauge eventually shows it and keeps
\* showing it; a gauge changes only in a refresh whose read of its key
\* succeeded, and then to the cardinality the store holds at that moment, so a
\* failed read leaves the gauge as it was and every value shown was held by
\* the store before.
C32_GaugesFollowStore ==
    /\ \A key \in GaugedKeys :
          (<>[][HeldBy(key)' = HeldBy(key)]_<<sessionsActive, active>>)
              => <>[](GaugeOf(key) = <<HeldBy(key)>>)
    /\ [][\A key \in GaugedKeys :
            GaugeOf(key)' # GaugeOf(key) =>
               /\ ret'.op = "updatePrometheusMetrics"
               /\ key \notin ret'.failed
               /\ GaugeOf(key)' = <<HeldBy(key)>>]_gauges

\* After two captures and the expiry of users:active:5m a refresh has brought
\* the gauge of 5m down to 0 while that of 15m shows 2.
C32_GaugeAfterExpiry ==
    /\ ret.op = "updatePrometheusMetrics"
    /\ active["5m"] = {}
    /\ Cardinality(active["15m"]) = 2
    /\ gauges.activeUsers["5m"] = <<0>>
    /\ gauges.activeUsers["15m"] = <<2>>
    /\ gauges.activeSessions = 1


\* The counter each of the three rate series is fed from.
RollupCounter ==
    [key \in {"metrics:tokens:input_rate", "metrics:tokens:output_rate",
              "metrics:error_rate"} |->
        CASE key = "metrics:tokens:input_rate" -> <<"tokens", "input", "count">>
          [] key = "metrics:tokens:output_rate" -> <<"tokens", "output", "count">>
          [] key = "metrics:error_rate" -> <<"errors", "total", "count">>]

\* C40: the periodic loops leave the capture state alone and no capture feeds
\* the counters the loops read: a refresh changes no key of the store, a
\* rollup changes only metrics:* series (the other keys change by expiry
\* alone), no step of a capture or of a loop changes tokens:input:count,
\* tokens:output:count, errors:total:count or errors:<type>:count, and the
\* samples a rollup appends to the input-rate, output-rate and error-rate
\* series are the values of those counters, whatever was captured.
C40_LoopsAndCapturesApart ==
    [][/\ counters' = counters
       /\ ret'.op = "updatePrometheusMetrics" => storeVars' = storeVars
       /\ (ret'.op = "UpdateMetricsFromRedis" /\ nticks' = nticks + 1) =>
             LET e == ExpireKeys(Store, now')
             IN  /\ [Store' EXCEPT !.series = e.series] = e
                 /\ \A key \in DOMAIN RollupCounter :
                       \A ts \in DOMAIN series'[key].samples \ DOMAIN series[key].samples :
                          series'[key].samples[ts] = GetFloat64(counters[RollupCounter[key]])]_vars

\* A rollup after two captures has appended the value of tokens:input:count,
\* not the tokens captured, and a refresh has counted the session.
C40_RollupAfterCaptures ==
    /\ ret.op = "UpdateMetricsFromRedis"
    /\ hist.captures = 2
    /\ gauges.activeSessions = 1
    /\ ret.timestamp \in DOMAIN series["metrics:tokens:input_rate"].samples
    /\ series["metrics:tokens:input_rate"].samples[ret.timestamp] = 2
    /\ ret.timestamp \in DOMAIN series["metrics:tokens:output_rate"].samples
    /\ series["metrics:tokens:output_rate"].samples[ret.timestamp] = 0

====
